---- MODULE Spec2Model ----
(***************************************************************************)
(* FinApp dashboard (frontend/src/pages/Dashboard.tsx): the client-side    *)
(* analytics computed over the loaded transaction list; and, each with a   *)
(* specification of its own, the correlator, the ChangePassword page, the  *)
(* AuthProvider, the Import page and loadData of the bills page.           *)
(*                                                                         *)
(* Time is counted in whole hours since 2023-01-01T00:00Z.  The local      *)
(* clock is UTC + tz hours (no daylight saving).                           *)
(***************************************************************************)
EXTENDS Integers, Sequences, FiniteSets, TLC

VARIABLES
    allTransactions,       \* useState<Transaction[]>([])            (line 52)
    filteredTransactions,  \* useState<Transaction[]>([])            (line 53)
    activeTab,             \* useState<TabType>('overview')          (line 51)
    loading,               \* useState(true)                        (line 54)
    loadingProgress,       \* useState<string>('')                  (line 55)
    error,                 \* useState('')                          (line 56)
    loadPc,                \* where loadAllTransactions is suspended
    pendingFiltered,       \* loadFilteredTransactions calls awaiting the API
    filters,               \* useState({start_date, end_date, ...})  (line 70)
    params,                \* the params of each call awaiting the API (line 151)
    answered,              \* the params of the call filteredTransactions answers
    now,                   \* the instant new Date() reads, in hours UTC
    tz,                    \* the browser's UTC offset in hours
    feed,                  \* the records the backend can return
    crashed,               \* a render threw: React has unmounted the tree
    view,                  \* what the last render computed
    correlator,            \* a call of correlate: its arguments and its result
    changePassword,        \* the state of the ChangePassword page
    auth,                  \* the state of the AuthProvider
    localStorage,          \* the browser's localStorage
    importPage,            \* the state of the Import page
    bills                  \* the state of the RecurringPayments page

\* The state of the dashboard page.
dashboard == <<allTransactions, filteredTransactions, activeTab, loading, loadingProgress,
               error, loadPc, pendingFiltered, filters, params, answered, now, tz, feed,
               crashed, view>>

\* The state of everything else.
outside == <<correlator, changePassword, auth, localStorage, importPage, bills>>

\* What the steps of one component leave as it is.
besidesCorrelator == <<dashboard, changePassword, auth, localStorage, importPage, bills>>

besidesChangePassword == <<dashboard, correlator, auth, localStorage, importPage, bills>>

besidesAuth == <<dashboard, correlator, changePassword, importPage, bills>>

besidesImport == <<dashboard, correlator, changePassword, auth, localStorage, bills>>

besidesBills == <<dashboard, correlator, changePassword, auth, localStorage, importPage>>

vars == <<dashboard, outside>>

----------------------------------------------------------------------------
(* Bounds of the model *)

MaxLen == 2

MaxFiltered == 1

MaxPending == 1

MaxRacing == 2

MaxDuplicates == 3

MaxCategories == 9

----------------------------------------------------------------------------
(* The Gregorian calendar over the modelled years, as the JavaScript Date  *)
(* and date-fns compute it.                                                *)

IsLeap(y) == (y % 4 = 0 /\ y % 100 # 0) \/ y % 400 = 0

DaysInMonth(y, m) ==
    IF m = 2 THEN (IF IsLeap(y) THEN 29 ELSE 28)
    ELSE IF m \in {4, 6, 9, 11} THEN 30 ELSE 31

DaysInYear(y) == IF IsLeap(y) THEN 366 ELSE 365

RECURSIVE DaysBeforeMonth(_, _)
DaysBeforeMonth(y, m) ==
    IF m = 1 THEN 0 ELSE DaysBeforeMonth(y, m - 1) + DaysInMonth(y, m - 1)

RECURSIVE DaysBeforeYear(_)
DaysBeforeYear(y) ==
    IF y = 2023 THEN 0 ELSE DaysBeforeYear(y - 1) + DaysInYear(y - 1)

\* Day number of the civil date y-m-d (day 0 is 2023-01-01).
DayNum(y, m, d) == DaysBeforeYear(y) + DaysBeforeMonth(y, m) + d - 1

\* The civil date of day number n: the year, then the month and the day of
\* the month by walking the months of that year.
YearOfDay(n) == IF n < DaysInYear(2023) THEN 2023 ELSE 2024

RECURSIVE MonthFrom(_, _, _)
MonthFrom(y, doy, m) ==
    IF doy < DaysInMonth(y, m) THEN [y |-> y, m |-> m, d |-> doy + 1]
    ELSE MonthFrom(y, doy - DaysInMonth(y, m), m + 1)

CivilIn(y, n) == MonthFrom(y, n - DaysBeforeYear(y), 1)

Civil(n) == CivilIn(YearOfDay(n), n)

\* A JavaScript Date: a valid instant, or Invalid Date (time value NaN).
InvalidDate == [valid |-> FALSE, t |-> 0]

DateAt(t) == [valid |-> TRUE, t |-> t]

\* Local calendar fields of a valid instant under offset z.
LocalDay(t, z) == (t + z) \div 24

LocalHour(t, z) == (t + z) % 24

\* The instant of local midnight + h hours of day n.
LocalInstant(n, h, z) == n * 24 + h - z

\* date >= start, date <= end on Date objects: comparisons with NaN are false.
DateGE(a, b) == a.valid /\ b.valid /\ a.t >= b.t

DateLE(a, b) == a.valid /\ b.valid /\ a.t <= b.t

\* date-fns startOfYear, startOfMonth, endOfMonth, subMonths, differenceInDays
\* on valid instants, each from the local civil date c of its argument.
\* endOfMonth is 23:59:59.999 of the last day; every instant of the model is
\* a whole hour, so its last hour stands for it.
StartOfYearOf(c, z) == LocalInstant(DayNum(c.y, 1, 1), 0, z)

startOfYear(t, z) == StartOfYearOf(Civil(LocalDay(t, z)), z)

StartOfMonthOf(c, z) == LocalInstant(DayNum(c.y, c.m, 1), 0, z)

startOfMonth(t, z) == StartOfMonthOf(Civil(LocalDay(t, z)), z)

EndOfMonthOf(c, z) == LocalInstant(DayNum(c.y, c.m, DaysInMonth(c.y, c.m)), 23, z)

endOfMonth(t, z) == EndOfMonthOf(Civil(LocalDay(t, z)), z)

\* subMonths: the same day of the month k months back, or the last day of
\* that month when it is shorter; the time of day is kept.
ClampedDay(ty, tm, d, last, h, z) ==
    LocalInstant(DayNum(ty, tm, IF d > last THEN last ELSE d), h, z)

MonthsBack(mm, d, h, z) ==
    ClampedDay(mm \div 12, (mm % 12) + 1, d, DaysInMonth(mm \div 12, (mm % 12) + 1), h, z)

SubMonthsOf(c, k, h, z) == MonthsBack((c.y * 12 + (c.m - 1)) - k, c.d, h, z)

subMonths(t, k, z) == SubMonthsOf(Civil(LocalDay(t, z)), k, LocalHour(t, z), z)

differenceInDays(a, b) == IF a >= b THEN (a - b) \div 24 ELSE 0 - ((b - a) \div 24)

----------------------------------------------------------------------------
(* Transaction records (frontend/src/lib/api Transaction, as the dashboard *)
(* reads them).                                                            *)
(*                                                                         *)
(* transaction_date is a string: kind "date" is "yyyy-MM-dd", kind         *)
(* "datetime" is "yyyy-MM-ddTHH:00:00" (no zone designator), kind "text"   *)
(* is a string that is no date.                                            *)
(* amount is a JavaScript value: type "number" (finite, or NaN when nan),  *)
(* or type "string" (the decimal string of v, or a non-numeric string      *)
(* when nan).                                                              *)

DateOnly(y, m, d) == [kind |-> "date", y |-> y, m |-> m, d |-> d, h |-> 0]

DateTime(y, m, d, h) == [kind |-> "datetime", y |-> y, m |-> m, d |-> d, h |-> h]

NoDate == [kind |-> "text", y |-> 0, m |-> 0, d |-> 0, h |-> 0]

Num(v) == [type |-> "number", nan |-> FALSE, v |-> v]

NaNAmount == [type |-> "number", nan |-> TRUE, v |-> 0]

NumStr(v) == [type |-> "string", nan |-> FALSE, v |-> v]

Txn(id, date, desc, cat, acct, amt) ==
    [transaction_id |-> id, transaction_date |-> date, description |-> desc,
     category |-> cat, account_id |-> acct, amount |-> amt]

\* typeof t.amount === 'number'
IsNumber(a) == a.type = "number"

\* t.amount < 0, t.amount > 0, t.amount === 0 on a value of type number:
\* every comparison with NaN is false.
NumLT0(a) == ~a.nan /\ a.v < 0

NumGT0(a) == ~a.nan /\ a.v > 0

NumEQ0(a) == ~a.nan /\ a.v = 0

Abs(n) == IF n < 0 THEN 0 - n ELSE n

RECURSIVE SumInts(_)
SumInts(s) == IF s = <<>> THEN 0 ELSE Head(s) + SumInts(Tail(s))

\* The date the dashboard resolves for a record (lines 207-210, and the same
\* three lines wherever a date is read): a string holding 'T' goes through
\* parseISO, which reads it in local time; any other string goes through
\* new Date(string), which reads "yyyy-MM-dd" as midnight UTC and yields
\* Invalid Date for a string that is no date.  Neither call throws.
ResolveDate(td, z) ==
    IF td.kind = "datetime" THEN DateAt(LocalInstant(DayNum(td.y, td.m, td.d), td.h, z))
    ELSE IF td.kind = "date" THEN DateAt(DayNum(td.y, td.m, td.d) * 24)
    ELSE InvalidDate

\* The calendar date written in the record, as a day number (-1: none).
CalendarDay(td) == IF td.kind = "text" THEN 0 - 1 ELSE DayNum(td.y, td.m, td.d)

----------------------------------------------------------------------------
(* JavaScript numbers produced by divisions: a finite quotient n/d (d > 0),*)
(* NaN, or an infinity.                                                    *)

Fin(n, d) == [k |-> "fin", n |-> n, d |-> (IF n = 0 THEN 1 ELSE d)]

JsNaN == [k |-> "NaN", n |-> 0, d |-> 1]

JsInf(sign) == [k |-> "Infinity", n |-> sign, d |-> 1]

JsZero == Fin(0, 1)

JsDiv(a, b) ==
    IF b = 0 THEN (IF a = 0 THEN JsNaN ELSE JsInf(IF a > 0 THEN 1 ELSE 0 - 1))
    ELSE IF b > 0 THEN Fin(a, b) ELSE Fin(0 - a, 0 - b)

JsTimes(q, c) == IF q.k = "fin" THEN Fin(q.n * c, q.d) ELSE q

IsFinite(q) == q.k = "fin"

----------------------------------------------------------------------------
(* metrics (lines 196-285)                                                 *)

\* getTransactionsInRange (lines 204-216): Array.prototype.filter keeps the
\* records whose resolved date lies in [start, end] as instants, in order,
\* in a new array.
InRange(t, start, end, z) ==
    LET date == ResolveDate(t.transaction_date, z)
    IN DateGE(date, DateAt(start)) /\ DateLE(date, DateAt(end))

\* The same selection collected newest-first (unshift in place of push).
getTransactionsInRangeUnshift(transactions, start, end, z) ==
    LET kept == SelectSeq(transactions, LAMBDA t : InRange(t, start, end, z))
    IN [i \in 1..Len(kept) |-> kept[Len(kept) + 1 - i]]

getTransactionsInRange(transactions, start, end, z) ==
    SelectSeq(transactions, LAMBDA t : InRange(t, start, end, z))

AbsAmounts(txns) == [i \in 1..Len(txns) |-> Abs(txns[i].amount.v)]

Amounts(txns) == [i \in 1..Len(txns) |-> txns[i].amount.v]

\* calculateTotals (lines 223-252), one operator per returned sum.
ccSpent(txns) ==
    SumInts(AbsAmounts(SelectSeq(txns, LAMBDA t :
        IsNumber(t.amount) /\ NumLT0(t.amount) /\ t.account_id # "chk_main")))

checkingOut(txns) ==
    SumInts(AbsAmounts(SelectSeq(txns, LAMBDA t :
        IsNumber(t.amount) /\ NumLT0(t.amount) /\ t.account_id = "chk_main")))

\* The outflows of the card accounts alone (totalSpent with the account test
\* of ccSpent).
cardOutflowsOnly(txns) == ccSpent(txns)

totalSpent(txns) ==
    SumInts(AbsAmounts(SelectSeq(txns, LAMBDA t :
        IsNumber(t.amount) /\ NumLT0(t.amount))))

\* The positive amounts of every account (received without the account test).
receivedAnyAccount(txns) ==
    SumInts(Amounts(SelectSeq(txns, LAMBDA t : IsNumber(t.amount) /\ NumGT0(t.amount))))

received(txns) ==
    SumInts(Amounts(SelectSeq(txns, LAMBDA t :
        IsNumber(t.amount) /\ NumGT0(t.amount) /\ t.account_id = "chk_main")))

calculateTotals(txns) ==
    [spent       |-> ccSpent(txns),
     checkingOut |-> checkingOut(txns),
     totalSpent  |-> totalSpent(txns),
     received    |-> received(txns),
     net         |-> received(txns) - totalSpent(txns),
     count       |-> Len(txns)]

\* The day count without the + 1 of lines 260-261.
daysElapsed(t, yearStart) == differenceInDays(t, yearStart)

\* The whole days since the start of the month, the first day counting 0.
daysSinceMonthStart(t, monthStart) == differenceInDays(t, monthStart)

\* daysInYear, daysInMonth (lines 260-261)
daysInYear(t, yearStart) == differenceInDays(t, yearStart) + 1

daysInMonth(t, monthStart) == differenceInDays(t, monthStart) + 1

\* The quotient of lines 269-271 without its guard.
momChangeUnguarded(thisSpent, lastSpent) ==
    JsTimes(JsDiv(thisSpent - lastSpent, lastSpent), 100)

\* momChange (lines 269-271)
momChange(thisSpent, lastSpent) ==
    IF lastSpent > 0 THEN JsTimes(JsDiv(thisSpent - lastSpent, lastSpent), 100)
    ELSE JsZero

\* The value the memo returns (lines 273-284), with the four selections
\* it is built on.
MetricsValue(ytd, thisMonth, lastMonth, last90Days, dYear, dMonth, ranges) ==
    [ytd |-> ytd,
     thisMonth |-> thisMonth,
     lastMonth |-> lastMonth,
     last90Days |-> last90Days,
     ytdDailyAvg |-> JsDiv(ytd.spent, dYear),
     monthDailyAvg |-> JsDiv(thisMonth.spent, dMonth),
     projectedAnnual |-> JsTimes(JsDiv(ytd.spent, dYear), 365),
     momChange |-> momChange(thisMonth.spent, lastMonth.spent),
     daysInYear |-> dYear,
     daysInMonth |-> dMonth,
     ranges |-> ranges]

\* The totals of the four selections (lines 254-257).
MetricsTotals(ranges, dYear, dMonth) ==
    MetricsValue(calculateTotals(ranges.ytd.out), calculateTotals(ranges.thisMonth.out),
                 calculateTotals(ranges.lastMonth.out), calculateTotals(ranges.last90Days.out),
                 dYear, dMonth, ranges)

\* One selection (lines 218-221) with the bounds it was made with.
Selection(transactions, start, end, z) ==
    [start |-> start, end |-> end,
     out |-> getTransactionsInRange(transactions, start, end, z)]

\* The four selections, from the bounds of lines 197-201.
MetricsRanges(transactions, t, yearStart, monthStart, lastMonthStart, lastMonthEnd, last90Start, z) ==
    MetricsTotals([ytd        |-> Selection(transactions, yearStart, t, z),
                   thisMonth  |-> Selection(transactions, monthStart, t, z),
                   lastMonth  |-> Selection(transactions, lastMonthStart, lastMonthEnd, z),
                   last90Days |-> Selection(transactions, last90Start, t, z)],
                  daysInYear(t, yearStart), daysInMonth(t, monthStart))

\* lastMonthStart and lastMonthEnd (lines 200-201) from subMonths(now, 1).
MetricsBounds(transactions, t, aMonthAgo, last90Start, z) ==
    MetricsRanges(transactions, t, startOfYear(t, z), startOfMonth(t, z),
                  startOfMonth(aMonthAgo, z), endOfMonth(aMonthAgo, z), last90Start, z)

\* The metrics memo (lines 196-285).
Metrics(transactions, t, z) ==
    MetricsBounds(transactions, t, subMonths(t, 1, z), subMonths(t, 3, z), z)

Buckets == {"ytd", "thisMonth", "lastMonth", "last90Days"}

----------------------------------------------------------------------------
(* dataValidation (lines 518-635)                                          *)

\* !t.description || t.description.trim() === ''
IsBlank(text) == text \in {"", " "}

\* invalidDates (lines 542-552): isNaN(date.getTime()); nothing here throws.
invalidDates(transactions, z) ==
    SelectSeq(transactions, LAMBDA t : ~ResolveDate(t.transaction_date, z).valid)

\* invalidAmounts (lines 557-559)
invalidAmounts(transactions) ==
    SelectSeq(transactions, LAMBDA t : ~IsNumber(t.amount) \/ t.amount.nan)

\* duplicates (lines 570-571): the ids at an index that is not their first.
duplicates(transactions) ==
    LET ids == [i \in 1..Len(transactions) |-> transactions[i].transaction_id]
        idx == {i \in 1..Len(ids) : \E j \in 1..(i - 1) : ids[j] = ids[i]}
    IN Cardinality(idx)

\* typeof t.amount === 'number' ? t.amount : 0 (lines 577, 592, 623, 627, 631)
AmountOrZero(a) == IF IsNumber(a) THEN a ELSE Num(0)

\* rawTotals (lines 577-580, 610-615): the sum over allAmounts keeps a NaN.
rawTotals(transactions) ==
    LET allAmounts == [i \in 1..Len(transactions) |-> AmountOrZero(transactions[i].amount)]
        anyNaN == \E i \in 1..Len(allAmounts) : allAmounts[i].nan
        values == [i \in 1..Len(allAmounts) |-> allAmounts[i].v]
        spent == SumInts([i \in 1..Len(allAmounts) |->
                     IF NumLT0(allAmounts[i]) THEN Abs(allAmounts[i].v) ELSE 0])
        recv == SumInts([i \in 1..Len(allAmounts) |->
                     IF NumGT0(allAmounts[i]) THEN allAmounts[i].v ELSE 0])
    IN [total    |-> IF anyNaN THEN JsNaN ELSE Fin(SumInts(values), 1),
        spent    |-> spent,
        received |-> recv,
        net      |-> recv - spent]

\* positiveCount, negativeCount, zeroCount (lines 622-633)
positiveCount(transactions) ==
    Len(SelectSeq(transactions, LAMBDA t : NumGT0(AmountOrZero(t.amount))))

negativeCount(transactions) ==
    Len(SelectSeq(transactions, LAMBDA t : NumLT0(AmountOrZero(t.amount))))

zeroCount(transactions) ==
    Len(SelectSeq(transactions, LAMBDA t : NumEQ0(AmountOrZero(t.amount))))

\* dateRange (lines 524-538, 604-609).  dates keeps every resolved Date,
\* Invalid Date included (the map's catch never runs for a string);
\* Math.min / Math.max over a list holding NaN are NaN, new Date(NaN) is a
\* truthy Invalid Date, and date-fns format throws RangeError on it.
DateRangeThrows(transactions, z) ==
    \E i \in 1..Len(transactions) : ~ResolveDate(transactions[i].transaction_date, z).valid

dateRange(transactions, z) ==
    LET ts == {ResolveDate(transactions[i].transaction_date, z).t : i \in 1..Len(transactions)}
        lo == CHOOSE a \in ts : \A b \in ts : a <= b
        hi == CHOOSE a \in ts : \A b \in ts : a >= b
    IN [min |-> LocalDay(lo, z), max |-> LocalDay(hi, z)]

\* The value of the dataValidation memo: null for an empty list, a thrown
\* RangeError, or the report.
dataValidation(transactions, z) ==
    IF Len(transactions) = 0 THEN [status |-> "null"]
    ELSE IF DateRangeThrows(transactions, z) THEN [status |-> "threw"]
    ELSE [status |-> "ok",
          totalCount |-> Len(transactions),
          dateRange |-> dateRange(transactions, z),
          rawTotals |-> rawTotals(transactions),
          invalidDates |-> Len(invalidDates(transactions, z)),
          invalidAmounts |-> Len(invalidAmounts(transactions)),
          missingDescriptions |->
              Len(SelectSeq(transactions, LAMBDA t : IsBlank(t.description))),
          duplicates |-> duplicates(transactions),
          positiveCount |-> positiveCount(transactions),
          negativeCount |-> negativeCount(transactions),
          zeroCount |-> zeroCount(transactions)]

----------------------------------------------------------------------------
(* Arrays.  A JavaScript array is an object: filter, map, slice and        *)
(* Object.entries build a new array, sort reorders its receiver in place   *)
(* and returns it.  The arrays of one render live in a heap, a function    *)
(* from the name bound to the array to its elements.                       *)

ArrayNames ==
    {"allTransactions", "filteredTransactions", "categoryEntries", "uncategorized",
     "housingTransactions", "totals", "potentialDuplicateGroups", "thisMonthTxs"}

Store(h, name, elems) == [h EXCEPT ![name] = elems]

\* Array.prototype.sort((a, b) => key(a) - key(b)): insertion into the
\* sorted prefix, each element placed after the elements it does not come
\* before (stable for every consistent comparator).  An element is paired
\* with its key; a NaN difference counts as 0.
SortKey(v) == [nan |-> FALSE, v |-> v]

SortKeyNaN == [nan |-> TRUE, v |-> 0]

KeyBefore(a, b) == ~a.key.nan /\ ~b.key.nan /\ a.key.v < b.key.v

RECURSIVE InsertSorted(_, _)
InsertSorted(sorted, x) ==
    IF sorted = <<>> THEN <<x>>
    ELSE IF KeyBefore(x, sorted[Len(sorted)])
         THEN Append(InsertSorted(SubSeq(sorted, 1, Len(sorted) - 1), x),
                     sorted[Len(sorted)])
         ELSE Append(sorted, x)

RECURSIVE SortPairs(_)
SortPairs(s) ==
    IF s = <<>> THEN <<>>
    ELSE InsertSorted(SortPairs(SubSeq(s, 1, Len(s) - 1)), s[Len(s)])

Elems(sorted) == [i \in 1..Len(sorted) |-> sorted[i].elem]

\* s sorted by keys, keys[i] being the key of s[i].
ArraySort(s, keys) ==
    Elems(SortPairs([i \in 1..Len(s) |-> [elem |-> s[i], key |-> keys[i]]]))

SortInPlace(h, name, keys) == [h EXCEPT ![name] = ArraySort(h[name], keys)]

\* The keys of the comparators (a, b) => b.total - a.total and
\* (a, b) => Math.abs(b.amount) - Math.abs(a.amount).
TotalDescKeys(s) == [i \in 1..Len(s) |-> SortKey(0 - s[i].total)]

AmountDescKeys(s) == [i \in 1..Len(s) |-> SortKey(0 - Abs(s[i].amount.v))]

Take(s, k) == SubSeq(s, 1, IF Len(s) < k THEN Len(s) ELSE k)

\* Grouped sums in a plain object, its keys in the order of their first
\* insertion.
GroupSum(keys, vals) ==
    LET n == Len(keys)
        firsts == SelectSeq([i \in 1..n |-> i],
                            LAMBDA i : \A j \in 1..(i - 1) : keys[j] # keys[i])
    IN [g \in 1..Len(firsts) |->
          [key   |-> keys[firsts[g]],
           total |-> SumInts([j \in 1..n |-> IF keys[j] = keys[firsts[g]] THEN vals[j] ELSE 0]),
           count |-> Cardinality({j \in 1..n : keys[j] = keys[firsts[g]]})]]

----------------------------------------------------------------------------
(* chartData.categorySpending (lines 290-299)                              *)

IsOutflow(t) == IsNumber(t.amount) /\ NumLT0(t.amount)

\* t.category || 'Uncategorized'
CategoryOf(t) == IF t.category = "" THEN "Uncategorized" ELSE t.category

\* The array index a property key denotes (a canonical decimal string below
\* 2^32 - 1), or -1 for any other string, on the strings of the model.
ArrayIndexOf(key) == IF key = "2024" THEN 2024 ELSE 0 - 1

IndexKeys(entries) == [i \in 1..Len(entries) |-> SortKey(ArrayIndexOf(entries[i].key))]

\* Object.entries (line 298): the own keys that are array indices first, in
\* ascending numeric order, then the other strings in the order of their
\* creation.
AscendingIndices(indexed, others) == ArraySort(indexed, IndexKeys(indexed)) \o others

ObjectEntries(entries) ==
    AscendingIndices(SelectSeq(entries, LAMBDA e : ArrayIndexOf(e.key) >= 0),
                     SelectSeq(entries, LAMBDA e : ArrayIndexOf(e.key) < 0))

categorySpending(transactions) ==
    LET out == SelectSeq(transactions, IsOutflow)
    IN ObjectEntries(GroupSum([i \in 1..Len(out) |-> CategoryOf(out[i])], AbsAmounts(out)))

\* The state array itself, the receiver of a sort applied to the list
\* instead of to a copy.
LoadedListSortReceiver == "allTransactions"

\* The array each sort call of the component is applied to.
CategoryEntriesSortReceiver == "categoryEntries"

UncategorizedSortReceiver == "uncategorized"

HousingTotalsSortReceiver == "totals"

HousingSortReceiver == "housingTransactions"

DuplicateGroupsSortReceiver == "potentialDuplicateGroups"

TopExpensesSortReceiver == "thisMonthTxs"

\* categoryEntries (lines 298-299): Object.entries(...).sort((a, b) => b[1] - a[1])
CategoryEntriesSortStep(h) ==
    SortInPlace(h, CategoryEntriesSortReceiver, TotalDescKeys(h[CategoryEntriesSortReceiver]))

ChartDataStep(h, transactions) ==
    CategoryEntriesSortStep(Store(h, "categoryEntries", categorySpending(h[transactions])))

\* format(date, 'yyyy-MM'): the local year and month of a valid instant.
MonthOfCivil(c) == [y |-> c.y, m |-> c.m]

MonthOf(t, z) == MonthOfCivil(Civil(LocalDay(t, z)))

\* The month an outflow is added to (lines 306-311); an outflow whose date
\* is Invalid Date makes format throw, and the catch skips it.
HasMonth(x, z) == IsOutflow(x) /\ ResolveDate(x.transaction_date, z).valid

MonthKeyOf(x, z) == MonthOf(ResolveDate(x.transaction_date, z).t, z)

InMonth(x, month, z) == HasMonth(x, z) /\ MonthKeyOf(x, z) = month

\* monthlySpending (lines 302-316), as the months and the amounts added.
MonthlyAdds(dated, z) ==
    <<>> \o [i \in 1..Len(dated) |->
                [month |-> MonthKeyOf(dated[i], z), amount |-> Abs(dated[i].amount.v)]]

monthlySpending(transactions, z) ==
    MonthlyAdds(SelectSeq(transactions, LAMBDA x : HasMonth(x, z)), z)

\* months (lines 319-323): the twelve months ending with the current one,
\* oldest first, each from subMonths(new Date(), i).
Months(c, h, z) == <<>> \o [k \in 1..12 |-> MonthOf(SubMonthsOf(c, 12 - k, h, z), z)]

\* monthlyData (lines 325-328): monthlySpending[month] || 0 for each month.
MonthlyRows(adds, months) ==
    [k \in 1..12 |->
        [month  |-> months[k],
         amount |-> SumInts([i \in 1..Len(adds) |->
                        IF adds[i].month = months[k] THEN adds[i].amount ELSE 0])]]

monthlyData(transactions, t, z) ==
    MonthlyRows(monthlySpending(transactions, z),
                Months(Civil(LocalDay(t, z)), LocalHour(t, z), z))

\* chartData.categorySpending.data (line 373)
CategoryData(entries) == [i \in 1..Len(entries) |-> entries[i].total]

\* ((value / total) * 100).toFixed(1), in tenths of a percent: the nearest
\* tenth, a half rounded up.
Percentage(value, total) == (value * 2000 + total) \div (2 * total)

\* The label callback of pieChartOptions (lines 483-489) on each slice of a
\* pie: total is the sum of the data the pie was given.
PieLabels(data, total) ==
    [i \in 1..Len(data) |->
        [value |-> data[i], total |-> total, percentage |-> Percentage(data[i], total)]]

Pie(data) == PieLabels(data, SumInts(data))

\* The Top Categories pie of the overview (lines 1043-1054).
OverviewPie(data) == Pie(Take(data, 8))

\* The Spending by Category pie (lines 1442-1454).
CategoriesPie(data) == Pie(data)

\* The Top Categories list (lines 1465-1468): total is the sum of all the
\* data, whatever the number of rows listed.
TopCategoryRows(shown, total) ==
    [i \in 1..Len(shown) |->
        [amount |-> shown[i], total |-> total, percentage |-> Percentage(shown[i], total)]]

TopCategories(data) == TopCategoryRows(Take(data, 10), SumInts(data))

\* The category percentages of the tab shown.
CategoryCharts(content, data) ==
    [overviewPie   |-> IF content = "overview" THEN OverviewPie(data) ELSE <<>>,
     categoriesPie |-> IF content = "categories" THEN CategoriesPie(data) ELSE <<>>,
     topCategories |-> IF content = "categories" THEN TopCategories(data) ELSE <<>>]

----------------------------------------------------------------------------
(* Categories tab: uncategorized outflows (lines 1487-1496)                *)

IsUncategorized(t) == IsBlank(t.category) /\ IsOutflow(t)

UncategorizedSortStep(h) ==
    SortInPlace(h, UncategorizedSortReceiver, AmountDescKeys(h[UncategorizedSortReceiver]))

CategoriesStep(h) ==
    UncategorizedSortStep(
        Store(h, "uncategorized", SelectSeq(h["allTransactions"], IsUncategorized)))

----------------------------------------------------------------------------
(* Housing tab (lines 1588-1651, 1808, 1876-1890)                          *)

\* housingKeywords (lines 1590-1598), in the order Object.entries lists them.
housingKeywords ==
    << [category |-> "mortgage",
        keywords |-> {"mortgage", "house payment", "home loan", "principal", "escrow"}],
       [category |-> "utilities",
        keywords |-> {"electric", "electricity", "power", "gas", "water", "sewer",
                      "trash", "garbage", "waste"}],
       [category |-> "internet",
        keywords |-> {"internet", "cable", "comcast", "xfinity", "spectrum", "att",
                      "at&t", "verizon fios", "frontier"}],
       [category |-> "insurance",
        keywords |-> {"home insurance", "homeowner", "property insurance",
                      "hazard insurance"}],
       [category |-> "hoa",
        keywords |-> {"hoa", "homeowner association", "condo fee", "maintenance fee"}],
       [category |-> "maintenance",
        keywords |-> {"home depot", "lowes", "lowe's", "menards", "ace hardware",
                      "plumber", "electrician", "hvac", "repair"}],
       [category |-> "property_tax",
        keywords |-> {"property tax", "real estate tax", "county tax"}] >>

allKeywords == UNION {housingKeywords[i].keywords : i \in 1..Len(housingKeywords)}

\* String.prototype.includes after toLowerCase, on the strings of the model:
\* the housing keywords that occur in the lower-cased string.
Occurrences(str) ==
    CASE str = "MORTGAGE PAYMENT" -> {"mortgage"}
      [] str = "HOME DEPOT"       -> {"home depot"}
      [] str = "CITY WATER"       -> {"water"}
      [] str = "Gas"              -> {"gas"}
      [] OTHER                    -> {}

\* (desc + ' ' + cat).includes(k); no keyword of the model spans the blank.
TextIncludes(t, k) == k \in (Occurrences(t.description) \cup Occurrences(t.category))

\* The filter of lines 1603-1610.
IsHousing(t) == IsOutflow(t) /\ \E k \in allKeywords : TextIncludes(t, k)

\* The category a housing record is pushed to (lines 1624-1640): the first
\* entry of housingKeywords with a keyword in the text, else other.
FirstCategory(keywords, hits) ==
    IF hits = {} THEN "other"
    ELSE keywords[CHOOSE i \in hits : \A j \in hits : i <= j].category

CategoryIn(keywords, t) ==
    FirstCategory(keywords, {i \in 1..Len(keywords) :
                                \E k \in keywords[i].keywords : TextIncludes(t, k)})

HousingCategoryOf(t) == CategoryIn(housingKeywords, t)

CategoriesOf(keywords) ==
    [i \in 1..(Len(keywords) + 1) |->
        IF i <= Len(keywords) THEN keywords[i].category ELSE "other"]

HousingCategories == CategoriesOf(housingKeywords)

\* totals (lines 1643-1649): one entry per category, empty categories dropped.
CategoryTotal(category, txns) ==
    [category |-> category, count |-> Len(txns), total |-> SumInts(AbsAmounts(txns))]

TotalsOver(categories, housingTransactions) ==
    SelectSeq([i \in 1..Len(categories) |->
                  CategoryTotal(categories[i],
                                SelectSeq(housingTransactions,
                                          LAMBDA t : HousingCategoryOf(t) = categories[i]))],
              LAMBDA c : c.count > 0)

housingTotals(housingTransactions) == TotalsOver(HousingCategories, housingTransactions)

\* dateB.getTime() - dateA.getTime() (lines 1877-1889)
DateKey(d) == IF d.valid THEN SortKey(0 - d.t) ELSE SortKeyNaN

DateDescKey(t, z) == DateKey(ResolveDate(t.transaction_date, z))

\* housingTransactions (lines 1603-1610), totals (lines 1643-1649), and the
\* two sorts of the lists shown (lines 1808, 1876-1890), which are rendered
\* only when there is a housing record (line 1716).
HousingFilterStep(h) ==
    Store(h, "housingTransactions", SelectSeq(h["allTransactions"], IsHousing))

HousingTotalsStep(h) == Store(h, "totals", housingTotals(h["housingTransactions"]))

DateDescKeys(s, z) == [i \in 1..Len(s) |-> DateDescKey(s[i], z)]

HousingTotalsSortStep(h) ==
    SortInPlace(h, HousingTotalsSortReceiver, TotalDescKeys(h[HousingTotalsSortReceiver]))

HousingTransactionsSortStep(h, z) ==
    SortInPlace(h, HousingSortReceiver, DateDescKeys(h[HousingSortReceiver], z))

HousingSortStep(h, z) ==
    IF h["housingTransactions"] = <<>> THEN h
    ELSE HousingTransactionsSortStep(HousingTotalsSortStep(h), z)

HousingStep(h, z) == HousingSortStep(HousingTotalsStep(HousingFilterStep(h)), z)

----------------------------------------------------------------------------
(* Data Validation tab (lines 2005-2054, 2189-2221, 2276-2287, 2415-2428)  *)

\* thisMonthTxs of the diagnostics (lines 2011-2017): the same filter as
\* getTransactionsInRange, from startOfMonth(now) to endOfMonth(now).
thisMonthTxs(transactions, t, z) ==
    SelectSeq(transactions,
              LAMBDA x : InRange(x, startOfMonth(t, z), endOfMonth(t, z), z))

\* uniqueDuplicates (lines 2024-2026): the set of the ids found at an index
\* that is not their first.
uniqueDuplicates(txs) ==
    {txs[i].transaction_id : i \in {i \in 1..Len(txs) :
        \E j \in 1..(i - 1) : txs[j].transaction_id = txs[i].transaction_id}}

\* `${t.amount}`: a number and the decimal string of that number read alike.
AmountText(a) ==
    IF a.nan THEN [w |-> (IF IsNumber(a) THEN "NaN" ELSE "text"), v |-> 0]
    ELSE [w |-> "digits", v |-> a.v]

\* t.transaction_date.split('T')[0]
DatePart(td) == [kind |-> (IF td.kind = "text" THEN "text" ELSE "ymd"),
                 y |-> td.y, m |-> td.m, d |-> td.d]

\* The key of lines 2200-2203.
TxnKey(t) == <<DatePart(t.transaction_date), t.description, AmountText(t.amount), t.account_id>>

\* txnKeys and potentialDuplicateGroups (lines 2198-2209): the groups of
\* more than one record, in the order of the first record of each key.
potentialDuplicateGroups(all) ==
    LET n == Len(all)
        firsts == SelectSeq([i \in 1..n |-> i],
                            LAMBDA i : \A j \in 1..(i - 1) : TxnKey(all[j]) # TxnKey(all[i]))
        groups == [g \in 1..Len(firsts) |->
                     SelectSeq(all, LAMBDA t : TxnKey(t) = TxnKey(all[firsts[g]]))]
    IN SelectSeq(groups, LAMBDA txns : Len(txns) > 1)

\* The key of line 2031: description, amount and the whole date string.
MonthKey(t) == <<t.description, AmountText(t.amount), t.transaction_date>>

\* potentialDuplicates and exactDuplicates (lines 2029-2037): Object.values
\* lists the groups in the order of the first record of each key.
exactDuplicates(txs) ==
    LET n == Len(txs)
        firsts == SelectSeq([i \in 1..n |-> i],
                            LAMBDA i : \A j \in 1..(i - 1) : MonthKey(txs[j]) # MonthKey(txs[i]))
        groups == [g \in 1..Len(firsts) |->
                     SelectSeq(txs, LAMBDA t : MonthKey(t) = MonthKey(txs[firsts[g]]))]
    IN SelectSeq(groups, LAMBDA arr : Len(arr) > 1)

\* duplicateIds (lines 2191-2195): the ids counted more than once.
duplicateIds(all) ==
    {all[i].transaction_id : i \in {i \in 1..Len(all) :
        \E j \in 1..Len(all) : j # i /\ all[j].transaction_id = all[i].transaction_id}}

\* duplicateSpending (lines 2212-2221)
duplicateSpending(groups) ==
    SumInts([g \in 1..Len(groups) |->
        SumInts([i \in 1..(Len(groups[g]) - 1) |->
            LET amt == AmountOrZero(groups[g][i + 1].amount)
            IN IF NumLT0(amt) THEN Abs(amt.v) ELSE 0])])

\* The comparator of lines 2277-2282: b.length * bAmt - a.length * aAmt.
GroupImpactKey(txns) ==
    LET a == AmountOrZero(txns[1].amount)
    IN IF a.nan THEN SortKeyNaN ELSE SortKey(0 - (Len(txns) * Abs(a.v)))

\* extraAmount (lines 2285-2287)
extraAmount(txns) ==
    LET amount == AmountOrZero(txns[1].amount)
    IN IF amount.nan THEN JsNaN ELSE Fin(Abs(amount.v) * (Len(txns) - 1), 1)

\* Top 20 Expenses This Month (lines 2416-2428)
IsExpenseThisMonth(x, t, z) == InRange(x, startOfMonth(t, z), t, z) /\ IsOutflow(x)

GroupImpactKeys(s) == [i \in 1..Len(s) |-> GroupImpactKey(s[i])]

DuplicateGroupsStep(h) ==
    Store(h, "potentialDuplicateGroups", potentialDuplicateGroups(h["allTransactions"]))

DuplicateGroupsSortStep(h) ==
    IF h["potentialDuplicateGroups"] = <<>> THEN h
    ELSE SortInPlace(h, DuplicateGroupsSortReceiver,
                     GroupImpactKeys(h[DuplicateGroupsSortReceiver]))

TopExpensesSortStep(h) ==
    SortInPlace(h, TopExpensesSortReceiver, AmountDescKeys(h[TopExpensesSortReceiver]))

TopExpensesStep(h, transactions, t, z) ==
    TopExpensesSortStep(
        Store(h, "thisMonthTxs",
              SelectSeq(h[transactions], LAMBDA x : IsExpenseThisMonth(x, t, z))))

ValidationStep(h, transactions, t, z) ==
    TopExpensesStep(DuplicateGroupsSortStep(DuplicateGroupsStep(h)), transactions, t, z)

----------------------------------------------------------------------------
(* One render of the Dashboard component (lines 193-635 and the JSX).      *)

TabType == {"overview", "transactions", "ytd", "monthly", "categories", "housing",
            "trends", "validation", "health"}

EmptyHeap(all, filtered) ==
    [n \in ArrayNames |->
        IF n = "allTransactions" THEN all
        ELSE IF n = "filteredTransactions" THEN filtered ELSE <<>>]

\* The array the name transactions is bound to (line 193).
TransactionsRef(tab) == IF tab = "transactions" THEN "filteredTransactions" ELSE "allTransactions"

\* Which branch of the tab content is rendered (lines 747-772).
ContentOf(tab, isLoading, err, all) ==
    IF isLoading /\ tab # "transactions" THEN "spinner"
    ELSE IF err # "" /\ Len(all) = 0 THEN "retry"
    ELSE tab

\* d < monthStart || d > monthEnd on Date objects (line 2054).
DateOutside(d, monthStart, monthEnd) ==
    d.valid /\ (d.t < monthStart \/ d.t > monthEnd)

\* dates and datesOutsideMonth (lines 2047-2054): the resolved dates of
\* thisMonthTxs that lie outside the month.
datesOutsideMonth(txs, monthStart, monthEnd, z) ==
    SelectSeq([i \in 1..Len(txs) |-> ResolveDate(txs[i].transaction_date, z)],
              LAMBDA d : DateOutside(d, monthStart, monthEnd))

\* The diagnostics of the current month (lines 2005-2054).
MonthDiagnostics(txs, t, z) ==
    [thisMonthTxs |-> txs,
     uniqueDuplicates |-> Cardinality(uniqueDuplicates(txs)),
     exactDuplicates |-> exactDuplicates(txs),
     datesOutsideMonth |->
         Len(datesOutsideMonth(txs, startOfMonth(t, z), endOfMonth(t, z), z))]

\* What the render shows, given the heap h the tab content left and the
\* values of the memos.
ViewOf(h, loaded, transactions, content, m, dv, t, z) ==
    [content |-> content,
     loaded |-> loaded,
     transactions |-> transactions,
     metrics |-> m,
     categoryEntries |-> h["categoryEntries"],
     charts |-> CategoryCharts(content, CategoryData(h["categoryEntries"])),
     monthlyData |-> monthlyData(transactions, t, z),
     dataValidation |-> dv,
     uncategorized |-> h["uncategorized"],
     housingTransactions |-> Take(h["housingTransactions"], 50),
     totals |-> h["totals"],
     month |-> MonthDiagnostics(IF content = "validation" /\ dv.status = "ok"
                                THEN thisMonthTxs(transactions, t, z) ELSE <<>>, t, z),
     duplicateIds |-> IF content = "validation" /\ dv.status = "ok"
                      THEN Cardinality(duplicateIds(h["allTransactions"])) ELSE 0,
     duplicateSpending |-> duplicateSpending(h["potentialDuplicateGroups"]),
     duplicateGroups |->
         [g \in 1..Len(Take(h["potentialDuplicateGroups"], 10)) |->
             [txns |-> h["potentialDuplicateGroups"][g],
              extraAmount |-> extraAmount(h["potentialDuplicateGroups"][g])]],
     topExpenses |-> Take(h["thisMonthTxs"], 20)]

\* The tab content (lines 775 on): the heap after the branch that content
\* names has run on h.
TabContentStep(h, ref, content, dv, t, z) ==
    IF content = "categories" THEN CategoriesStep(h)
    ELSE IF content = "housing" THEN HousingStep(h, z)
    ELSE IF content = "validation" /\ dv.status = "ok" THEN ValidationStep(h, ref, t, z)
    ELSE h

\* A throw of the dataValidation memo ends the render before any tab
\* content is built.
Rendered(h, loaded, transactions, content, m, dv, t, z) ==
    [heap |-> h, view |-> ViewOf(h, loaded, transactions, content, m, dv, t, z)]

RenderContent(h, loaded, transactions, ref, content, m, dv, t, z) ==
    Rendered(TabContentStep(h, ref, content, dv, t, z),
             loaded, transactions, content, m, dv, t, z)

RenderMemos(h, loaded, transactions, ref, tab, isLoading, err, m, dv, t, z) ==
    RenderContent(h, loaded, transactions, ref,
                  IF dv.status = "threw" THEN "threw"
                  ELSE ContentOf(tab, isLoading, err, h["allTransactions"]),
                  m, dv, t, z)

\* The heap after the render and what the render shows: the memos in the
\* order of their declaration (metrics, chartData, dataValidation), then
\* the content of the tab.
RenderFrom(h0, h1, loaded, ref, tab, isLoading, err, t, z) ==
    RenderMemos(h1, loaded, h0[ref], ref, tab, isLoading, err,
                Metrics(h0[ref], t, z), dataValidation(h1[ref], z), t, z)

RenderHeap(h0, loaded, ref, tab, isLoading, err, t, z) ==
    RenderFrom(h0, ChartDataStep(h0, ref), loaded, ref, tab, isLoading, err, t, z)

RenderResult(all, filtered, tab, isLoading, err, t, z) ==
    RenderHeap(EmptyHeap(all, filtered), [all |-> all, filtered |-> filtered],
               TransactionsRef(tab), tab, isLoading, err, t, z)

\* A state update followed by the render React runs for it: the state
\* variables take the updated values, the render reads them, and whatever
\* the render does to the two state arrays is what they hold afterwards.
Commit(r, tab, isLoading, err) ==
    /\ allTransactions' = r.heap["allTransactions"]
    /\ filteredTransactions' = r.heap["filteredTransactions"]
    /\ activeTab' = tab
    /\ loading' = isLoading
    /\ error' = err
    /\ view' = r.view
    /\ crashed' = (r.view.content = "threw")

Update(all, filtered, tab, isLoading, err) ==
    Commit(RenderResult(all, filtered, tab, isLoading, err, now, tz), tab, isLoading, err)

----------------------------------------------------------------------------
(* The records and clocks the model runs on.                               *)

NowJan1 == DayNum(2024, 1, 1) * 24 + 8

NowMar10 == DayNum(2024, 3, 10) * 24 + 12

Mar5 == DateOnly(2024, 3, 5)

\* Amount signs and types, all dated inside the current month.
FeedSigns ==
    { Txn("t1", Mar5, "NETFLIX", "Fun",    "cc_visa",  Num(0 - 50)),
      Txn("t2", Mar5, "PAYROLL", "Income", "chk_main", Num(100)),
      Txn("t3", Mar5, "ADJUST",  "",       "cc_visa",  Num(0)),
      Txn("t4", Mar5, "GROCER",  "Food",   "cc_visa",  NumStr(0 - 12)),
      Txn("t5", Mar5, "BROKEN",  "Food",   "cc_visa",  NaNAmount) }

\* Accounts: outflow and inflow on and off the checking account, and an
\* outflow of the previous month.
FeedAccounts ==
    { Txn("t1", Mar5, "NETFLIX", "Fun",    "cc_visa",  Num(0 - 50)),
      Txn("t2", Mar5, "RENT",    "",       "chk_main", Num(0 - 20)),
      Txn("t3", Mar5, "PAYROLL", "Income", "chk_main", Num(100)),
      Txn("t4", Mar5, "REFUND",  "",       "savings",  Num(30)),
      Txn("t5", DateOnly(2024, 2, 10), "NETFLIX", "Fun", "cc_visa", Num(0 - 40)) }

\* Dates on the edges of the periods, in both string forms, and a string
\* that is no date.
FeedDates ==
    { Txn("t1", DateOnly(2024, 3, 1),      "A", "Fun", "cc_visa", Num(0 - 10)),
      Txn("t2", DateOnly(2024, 3, 10),     "B", "Fun", "cc_visa", Num(0 - 20)),
      Txn("t3", DateOnly(2024, 2, 29),     "C", "Fun", "cc_visa", Num(0 - 30)),
      Txn("t4", DateTime(2024, 3, 10, 20), "D", "Fun", "cc_visa", Num(0 - 40)),
      Txn("t5", NoDate,                    "E", "Fun", "cc_visa", Num(0 - 50)) }

FeedNewYear ==
    { Txn("t1", DateOnly(2024, 1, 1),      "A", "Fun", "cc_visa", Num(0 - 10)),
      Txn("t2", DateOnly(2023, 12, 31),    "B", "Fun", "cc_visa", Num(0 - 20)),
      Txn("t3", DateTime(2024, 1, 1, 1),   "C", "Fun", "cc_visa", Num(0 - 30)),
      Txn("t4", DateOnly(2023, 12, 1),     "D", "Fun", "cc_visa", Num(0 - 40)) }

\* Housing keywords, blank categories, a repeated id and a repeated key.
FeedHousing ==
    { Txn("t1", DateOnly(2024, 3, 1), "MORTGAGE PAYMENT", "",    "chk_main", Num(0 - 50)),
      Txn("t2", DateOnly(2024, 3, 5), "HOME DEPOT",       "Home", "cc_visa", Num(0 - 20)),
      Txn("t3", DateOnly(2024, 3, 5), "SHELL",            "Gas",  "cc_visa", Num(0 - 30)),
      Txn("t4", DateOnly(2024, 3, 5), "HOME DEPOT",       "Home", "cc_visa", Num(0 - 20)),
      Txn("t4", DateOnly(2024, 2, 5), "NETFLIX",          " ",    "cc_visa", Num(0 - 60)) }

\* Repeated ids and repeated keys: the same record more than once, the same
\* charge on two accounts, the same charge under two ids, a repeated inflow.
FeedDuplicates ==
    { Txn("t1", Mar5, "NETFLIX", "Fun",    "cc_visa",  Num(0 - 50)),
      Txn("t2", Mar5, "NETFLIX", "Fun",    "chk_main", Num(0 - 50)),
      Txn("t3", Mar5, "PAYROLL", "Income", "chk_main", Num(100)),
      Txn("t4", Mar5, "NETFLIX", "Fun",    "cc_visa",  Num(0 - 50)) }

\* Categories with equal and unequal totals, one of them named by a year.
FeedCategories ==
    { Txn("t1", Mar5, "GROCER", "Food", "cc_visa", Num(0 - 10)),
      Txn("t2", Mar5, "CINEMA", "Fun",  "cc_visa", Num(0 - 10)),
      Txn("t3", Mar5, "TAXES",  "2024", "cc_visa", Num(0 - 10)),
      Txn("t4", Mar5, "GROCER", "Food", "cc_visa", Num(0 - 30)) }

\* A record inside and a record outside the first range of the filters.
FeedFilters ==
    { Txn("t1", Mar5, "NETFLIX", "Fun", "cc_visa", Num(0 - 50)),
      Txn("t2", DateOnly(2023, 11, 20), "RENT", "", "chk_main", Num(0 - 20)) }

\* One outflow per category, as many categories as wanted.
CategoryNames ==
    << "Food", "Fun", "Home", "Gas", "Travel", "Health", "Pets", "Gifts", "Books",
       "Tools", "Kids", "Misc" >>

LedgerIds == << "k1", "k2", "k3", "k4", "k5", "k6", "k7", "k8", "k9", "k10", "k11", "k12" >>

Ledger(n) ==
    [i \in 1..n |->
        Txn(LedgerIds[i], Mar5, "SHOP", CategoryNames[i], "cc_visa", Num(0 - (10 * i)))]

FeedLedger == {Ledger(MaxCategories)[i] : i \in 1..MaxCategories}

\* Two housing outflows listed oldest first, and a record whose date is no
\* date.
FeedMount ==
    { Txn("t1", DateOnly(2024, 3, 1), "MORTGAGE PAYMENT", "",     "chk_main", Num(0 - 50)),
      Txn("t2", DateOnly(2024, 3, 5), "HOME DEPOT",       "Home", "cc_visa",  Num(0 - 20)),
      Txn("t3", NoDate,               "PAYROLL",          "Income", "chk_main", Num(100)) }

\* What the backend holds, the clock and the zone of a session that is
\* followed from the mount of the component.
Scenarios == { [feed |-> FeedMount, now |-> NowMar10, tz |-> 0] }

\* Every list of at most n records of S.
Lists(S, n) == UNION {[1..k -> S] : k \in 0..n}

\* The same for a session that is followed from the end of a successful
\* load, with the lists the load can have returned.
LoadedScenario(S, t, z, lists) == [feed |-> S, now |-> t, tz |-> z, lists |-> lists]

LoadedScenarios ==
    { LoadedScenario(FeedSigns,      NowMar10, 0, Lists(FeedSigns, MaxLen)),
      LoadedScenario(FeedAccounts,   NowMar10, 0, Lists(FeedAccounts, MaxLen)),
      LoadedScenario(FeedHousing,    NowMar10, 0, Lists(FeedHousing, MaxLen)),
      LoadedScenario(FeedDuplicates, NowMar10, 0, Lists(FeedDuplicates, MaxDuplicates)),
      LoadedScenario(FeedCategories, NowMar10, 0, Lists(FeedCategories, MaxLen)),
      LoadedScenario(FeedLedger,     NowMar10, 0, {Ledger(k) : k \in 0..MaxCategories}) }
    \cup { LoadedScenario(FeedDates, NowMar10, z, Lists(FeedDates, MaxLen)) : z \in {0 - 5, 0} }
    \cup { LoadedScenario(FeedNewYear, NowJan1, z, Lists(FeedNewYear, MaxLen)) : z \in {0 - 5, 0} }

----------------------------------------------------------------------------
(* The state machine                                                       *)

MsgStarting == "Starting to load transactions..."

MsgFirstPage == "Loading first page of transactions..."

MsgNone == "No transactions found. Try importing some transactions first."

MsgPartial == "Warning: Only loaded first page of transactions."

MsgFailed == "Failed to load transactions"

MsgUnauthorized == "Not authenticated"

\* The filters of the transactions tab (lines 70-78).  A date is the day
\* number of the "yyyy-MM-dd" string the state holds; the first values are
\* the local dates of 90 days ago and of today.
InitialFilters(t, z) ==
    [start_date |-> LocalDay(t - 90 * 24, z), end_date |-> LocalDay(t, z)]

\* The dates the user picks in the two date inputs (lines 1076-1090).
FilterDates == {DayNum(2024, 1, 15), DayNum(2024, 3, 20)}

FilterFields == {"start_date", "end_date"}

\* params (lines 151-154)
ParamsOf(f) == [start_date |-> f.start_date, end_date |-> f.end_date]

RemoveAt(s, i) == SubSeq(s, 1, i - 1) \o SubSeq(s, i + 1, Len(s))

\* correlate has not been called.
CorrelatorIdle ==
    [pc |-> "idle", outflows |-> <<>>, inflows |-> <<>>, toleranceDays |-> 0,
     pairs |-> <<>>]

\* The ChangePassword page after its first render (part_002 lines 7-12).
\* A password is the sequence of its characters.  calls is the set of the
\* argument lists authApi.changePassword has been called with, and submitted
\* is what the last run of handleSubmit found and did.
ChangePasswordIdle ==
    [currentPassword |-> <<>>, newPassword |-> <<>>, confirmPassword |-> <<>>,
     error |-> "", success |-> "", loading |-> FALSE,
     pc |-> "idle", calls |-> {}, submitted |-> <<>>]

\* localStorage with neither token: getItem returns null.
NoTokens == [access_token |-> "null", refresh_token |-> "null"]

\* The AuthProvider after its mount effect found no token (AuthContext.tsx
\* lines 28-29, 45-53).  logins, loads and logouts count the calls of
\* authApi.login, authApi.getCurrentUser and authApi.logout that await their
\* response; calls counts the calls of login and logout so far; settled is
\* how the last call of logout ended.
AuthIdle ==
    [user |-> "null", loading |-> FALSE, logins |-> 0, loads |-> 0, logouts |-> 0,
     calls |-> 0, settled |-> <<>>]

\* One form of the Import page after the first render (part_000 lines 11-22).
\* file is the state ccFile or bankFile, input is the file the file input of
\* the page holds, and submitted is what the last run of the submit handler
\* found and did.
FormIdle ==
    [file |-> "null", input |-> "null", accountId |-> <<>>, loading |-> FALSE,
     error |-> "", success |-> "null", pc |-> "idle", submitted |-> <<>>]

\* The Import page after its first render (part_000 lines 8-22).
ImportIdle == [activeTab |-> "credit_card", credit_card |-> FormIdle, bank |-> FormIdle]

\* The RecurringPayments page after its first render (RecurringPayments.tsx
\* lines 47-55), before its mount effect.  A piece of data is written as the
\* number of the loadData call that fetched it, 0 for the initial value.
\* requests[n] is <<>> while call n is not running, else what has become of
\* its four requests; settled is how the last call to end ended.
BillsIdle ==
    [summary |-> 0, payments |-> 0, upcomingRecords |-> 0, overdueRecords |-> 0,
     loading |-> TRUE, error |-> "", started |-> 0,
     requests |-> <<>>, settled |-> <<>>]

\* The other components before anything has happened to them.
CorrelatorParked == correlator = CorrelatorIdle

ChangePasswordParked == changePassword = ChangePasswordIdle

AuthParked == auth = AuthIdle /\ localStorage = NoTokens

ImportParked == importPage = ImportIdle

BillsParked == bills = BillsIdle

OutsideInit ==
    /\ CorrelatorParked
    /\ ChangePasswordParked
    /\ AuthParked
    /\ ImportParked
    /\ BillsParked

\* After construction: the mount render has run with the initial state and
\* the mount effect (lines 178-180) has called loadAllTransactions, which is
\* suspended on the paginated request (lines 82-96).
Mount ==
    /\ \E sc \in Scenarios : feed = sc.feed /\ now = sc.now /\ tz = sc.tz
    /\ allTransactions = <<>>
    /\ filteredTransactions = <<>>
    /\ activeTab = "overview"
    /\ loading = TRUE
    /\ loadingProgress = MsgStarting
    /\ error = ""
    /\ loadPc = "paginated"
    /\ pendingFiltered = 0
    /\ filters = InitialFilters(now, tz)
    /\ params = <<>>
    /\ answered = <<>>
    /\ crashed = FALSE
    /\ view = RenderResult(<<>>, <<>>, "overview", TRUE, "", now, tz).view

Init == Mount /\ OutsideInit

\* transactionsApi.getAllTransactions resolves (lines 96-103, 141-144).
getAllTransactionsResolved ==
    /\ ~crashed /\ loadPc = "paginated"
    /\ \E data \in Lists(feed, MaxLen) :
          Update(data, filteredTransactions, activeTab, FALSE,
                 IF Len(data) = 0 THEN MsgNone ELSE error)
    /\ loadingProgress' = ""
    /\ loadPc' = "idle"
    /\ UNCHANGED <<pendingFiltered, filters, params, answered, now, tz, feed, outside>>

\* transactionsApi.getAllTransactions rejects (lines 104-108).
getAllTransactionsRejected ==
    /\ ~crashed /\ loadPc = "paginated"
    /\ Update(allTransactions, filteredTransactions, activeTab, loading, error)
    /\ loadingProgress' = MsgFirstPage
    /\ loadPc' = "fallback"
    /\ UNCHANGED <<pendingFiltered, filters, params, answered, now, tz, feed, outside>>

\* The fallback transactionsApi.getTransactions resolves (lines 108-120, 141-144).
fallbackResolved ==
    /\ ~crashed /\ loadPc = "fallback"
    /\ \E data \in Lists(feed, MaxLen) :
          Update(data, filteredTransactions, activeTab, FALSE,
                 IF Len(data) > 0 THEN MsgPartial ELSE MsgNone)
    /\ loadingProgress' = ""
    /\ loadPc' = "idle"
    /\ UNCHANGED <<pendingFiltered, filters, params, answered, now, tz, feed, outside>>

\* err.response.status of a rejected request
FailureStatuses == {401, 500}

\* errorMessage of loadAllTransactions (lines 131-135): the detail the server sent with a 401, or
\* err.message
loadErrorMessage(status) == IF status = 401 THEN MsgUnauthorized ELSE MsgFailed

\* The catch and finally blocks if the return of lines 138-140 left the
\* function without running the finally block.
returnSkipsFinally(status, isLoading) ==
    [loading |-> IF status = 401 THEN isLoading ELSE FALSE, loadingProgress |-> ""]

\* loading and loadingProgress after the catch block (line 129) and the
\* finally block (lines 141-144), which runs after the return of line 139 too.
afterCatch(status, isLoading) == [loading |-> FALSE, loadingProgress |-> ""]

\* The fallback rejects (lines 122-144).
fallbackRejected ==
    /\ ~crashed /\ loadPc = "fallback"
    /\ \E status \in FailureStatuses :
          /\ Update(allTransactions, filteredTransactions, activeTab,
                    afterCatch(status, loading).loading, loadErrorMessage(status))
          /\ loadingProgress' = afterCatch(status, loading).loadingProgress
    /\ loadPc' = "idle"
    /\ UNCHANGED <<pendingFiltered, filters, params, answered, now, tz, feed, outside>>

\* The Retry button (lines 761-766) calls loadAllTransactions (lines 82-96).
retry ==
    /\ ~crashed /\ view.content = "retry" /\ loadPc = "idle"
    /\ Update(allTransactions, filteredTransactions, activeTab, TRUE, "")
    /\ loadingProgress' = MsgStarting
    /\ loadPc' = "paginated"
    /\ UNCHANGED <<pendingFiltered, filters, params, answered, now, tz, feed, outside>>

\* setActiveTab (line 706); entering the transactions tab runs the effect of
\* lines 182-186, which calls loadFilteredTransactions (lines 149-161).
setActiveTab(tab) ==
    /\ ~crashed /\ tab # activeTab
    /\ IF tab = "transactions"
       THEN /\ pendingFiltered < MaxPending
            /\ pendingFiltered' = pendingFiltered + 1
            /\ params' = Append(params, ParamsOf(filters))
       ELSE UNCHANGED <<pendingFiltered, params>>
    /\ Update(allTransactions, filteredTransactions, tab, loading,
              IF tab = "transactions" THEN "" ELSE error)
    /\ UNCHANGED <<loadingProgress, loadPc, filters, answered, now, tz, feed, outside>>

\* handleFilterChange (lines 188-190) from a date input of the transactions
\* tab; the new filters give loadFilteredTransactions a new identity, and
\* the effect of lines 182-186 calls it (lines 149-161).
handleFilterChange(field, value) ==
    /\ ~crashed /\ view.content = "transactions"
    /\ filters[field] # value
    /\ pendingFiltered < MaxRacing
    /\ filters' = [filters EXCEPT ![field] = value]
    /\ pendingFiltered' = pendingFiltered + 1
    /\ params' = Append(params, ParamsOf([filters EXCEPT ![field] = value]))
    /\ Update(allTransactions, filteredTransactions, activeTab, loading, "")
    /\ UNCHANGED <<loadingProgress, loadPc, answered, now, tz, feed, outside>>

\* transactionsApi.getTransactions resolves for loadFilteredTransactions
\* (lines 161-162).
filteredResolved ==
    /\ ~crashed /\ pendingFiltered > 0
    /\ \E data \in Lists(feed, MaxFiltered) :
          Update(allTransactions, data, activeTab, loading, error)
    /\ pendingFiltered' = pendingFiltered - 1
    /\ \E i \in 1..Len(params) : params' = RemoveAt(params, i) /\ answered' = params[i]
    /\ UNCHANGED <<loadingProgress, loadPc, filters, now, tz, feed, outside>>

\* transactionsApi.getTransactions rejects for loadFilteredTransactions
\* (lines 163-175).
filteredRejected ==
    /\ ~crashed /\ pendingFiltered > 0
    /\ Update(allTransactions, filteredTransactions, activeTab, loading, MsgFailed)
    /\ pendingFiltered' = pendingFiltered - 1
    /\ \E i \in 1..Len(params) : params' = RemoveAt(params, i)
    /\ UNCHANGED <<loadingProgress, loadPc, filters, answered, now, tz, feed, outside>>

Next ==
    \/ getAllTransactionsResolved
    \/ getAllTransactionsRejected
    \/ fallbackResolved
    \/ fallbackRejected
    \/ retry
    \/ \E tab \in TabType : setActiveTab(tab)
    \/ filteredResolved
    \/ filteredRejected

Spec == Init /\ [][Next]_vars

----------------------------------------------------------------------------
(* A session followed from the end of a successful load: the paginated     *)
(* request has resolved with the records (lines 96-103, 141-144), the      *)
(* overview has been rendered, and the user visits the tabs whose content  *)
(* is computed in the browser from allTransactions.                        *)

AnalyticsTabs == TabType \ {"transactions"}

Loaded(r, err) ==
    /\ allTransactions = r.heap["allTransactions"]
    /\ filteredTransactions = r.heap["filteredTransactions"]
    /\ error = err
    /\ view = r.view
    /\ crashed = (r.view.content = "threw")

InitLoadedFrom(scenarios) ==
    /\ \E sc \in scenarios :
          /\ feed = sc.feed /\ now = sc.now /\ tz = sc.tz
          /\ \E data \in sc.lists :
                Loaded(RenderResult(data, <<>>, "overview", FALSE,
                                    IF Len(data) = 0 THEN MsgNone ELSE "", now, tz),
                       IF Len(data) = 0 THEN MsgNone ELSE "")
    /\ activeTab = "overview"
    /\ loading = FALSE
    /\ loadingProgress = ""
    /\ loadPc = "idle"
    /\ pendingFiltered = 0
    /\ filters = InitialFilters(now, tz)
    /\ params = <<>>
    /\ answered = <<>>
    /\ OutsideInit

InitLoaded == InitLoadedFrom(LoadedScenarios)

NextLoaded == \E tab \in AnalyticsTabs : setActiveTab(tab)

SpecLoaded == InitLoaded /\ [][NextLoaded]_vars

----------------------------------------------------------------------------
(* A session followed from the end of a successful load in which the user  *)
(* works on the transactions tab: changes tabs, picks dates in the two     *)
(* date inputs, and the requests of loadFilteredTransactions settle.       *)

FilterScenarios ==
    { LoadedScenario(FeedFilters, NowMar10, 0, Lists(FeedFilters, MaxFiltered)) }

InitFilters == InitLoadedFrom(FilterScenarios)

\* The tabs visited in this session.
FilterTabs == {"overview", "transactions"}

NextFilters ==
    \/ \E tab \in FilterTabs : setActiveTab(tab)
    \/ \E field \in FilterFields, value \in FilterDates : handleFilterChange(field, value)
    \/ filteredResolved
    \/ filteredRejected

SpecFilters == InitFilters /\ [][NextFilters]_vars

----------------------------------------------------------------------------
(* The correlated payments view (docs/OVERVIEW.md, "Correlated Payments    *)
(* View"): correlate(outflows, inflows, {toleranceDays}) pairs each        *)
(* outflow with an inflow of the same absolute amount whose date is within *)
(* toleranceDays days.  The outflows are taken in order; an inflow that    *)
(* has been paired is not offered again.                                   *)

MaxFlows == 2

FlowAmounts == {50, 120}

FlowDays == {DayNum(2024, 2, 10), DayNum(2024, 2, 12), DayNum(2024, 2, 13)}

Tolerances == {0 - 1, 1, 3}

\* The lists a caller can pass: the record at position i has the id i.
FlowLists(sign) ==
    UNION { { [i \in 1..k |-> [id |-> i, amount |-> sign * a[i], date |-> d[i]]] :
                a \in [1..k -> FlowAmounts], d \in [1..k -> FlowDays] } :
            k \in 0..MaxFlows }

dayDelta(outflow, inflow) == inflow.date - outflow.date

\* The inflows an outflow can be paired with, consumed ones included.
candidatesAnyInflow(outflow, inflows, used, toleranceDays) ==
    { j \in 1..Len(inflows) :
        /\ Abs(inflows[j].amount) = Abs(outflow.amount)
        /\ Abs(dayDelta(outflow, inflows[j])) <= toleranceDays }

\* The inflows an outflow can be paired with.
candidates(outflow, inflows, used, toleranceDays) ==
    { j \in 1..Len(inflows) :
        /\ j \notin used
        /\ Abs(inflows[j].amount) = Abs(outflow.amount)
        /\ Abs(dayDelta(outflow, inflows[j])) <= toleranceDays }

\* j is preferred to k: the smaller |dayDelta|, then the earlier inflow date,
\* then the earlier position.
Preferred(outflow, inflows, j, k) ==
    LET dj == Abs(dayDelta(outflow, inflows[j]))
        dk == Abs(dayDelta(outflow, inflows[k]))
    IN  \/ dj < dk
        \/ dj = dk /\ inflows[j].date < inflows[k].date
        \/ dj = dk /\ inflows[j].date = inflows[k].date /\ j <= k

bestCandidate(outflow, inflows, cands) ==
    CHOOSE j \in cands : \A k \in cands : Preferred(outflow, inflows, j, k)

RECURSIVE correlateFrom(_, _, _, _, _, _)
correlateFrom(outflows, inflows, toleranceDays, i, used, pairs) ==
    IF i > Len(outflows) THEN pairs
    ELSE LET cands == candidates(outflows[i], inflows, used, toleranceDays)
         IN  IF cands = {}
             THEN correlateFrom(outflows, inflows, toleranceDays, i + 1, used, pairs)
             ELSE LET j == bestCandidate(outflows[i], inflows, cands)
                  IN  correlateFrom(outflows, inflows, toleranceDays, i + 1,
                                    used \cup {j},
                                    Append(pairs,
                                           [outflow |-> outflows[i],
                                            inflow |-> inflows[j],
                                            dayDelta |-> dayDelta(outflows[i], inflows[j])]))

correlate(outflows, inflows, toleranceDays) ==
    correlateFrom(outflows, inflows, toleranceDays, 1, {}, <<>>)

\* A caller has passed its arguments.
InitCorrelator ==
    /\ Mount
    /\ ChangePasswordParked /\ AuthParked /\ ImportParked /\ BillsParked
    /\ \E outflows \in FlowLists(0 - 1), inflows \in FlowLists(1), t \in Tolerances :
          correlator = [CorrelatorIdle EXCEPT !.pc = "called", !.outflows = outflows,
                                              !.inflows = inflows, !.toleranceDays = t]

\* A negative toleranceDays is rejected before any computation.
correlateRejects ==
    /\ correlator.pc = "called"
    /\ correlator.toleranceDays < 0
    /\ correlator' = [correlator EXCEPT !.pc = "rejected"]
    /\ UNCHANGED besidesCorrelator

correlateReturns ==
    /\ correlator.pc = "called"
    /\ correlator.toleranceDays >= 0
    /\ correlator' = [correlator EXCEPT
                         !.pc = "returned",
                         !.pairs = correlate(correlator.outflows, correlator.inflows,
                                             correlator.toleranceDays)]
    /\ UNCHANGED besidesCorrelator

NextCorrelator == correlateRejects \/ correlateReturns

SpecCorrelator == InitCorrelator /\ [][NextCorrelator]_vars

----------------------------------------------------------------------------
(* The ChangePassword page (part_002).                                     *)

UpperCase == {"A", "B", "C", "D", "E", "F", "G", "X"}

LowerCase == {"a", "b", "c", "d", "e", "f", "g", "h"}

Digits == {"0", "1", "2", "9"}

\* What the user types in the two new-password inputs.
NewPasswords ==
    { <<>>,
      <<"A", "b", "c", "d", "e", "f", "g", "1">>,
      <<"X", "b", "c", "d", "e", "f", "g", "2">>,
      <<"A", "b", "c", "d", "e", "f", "1">>,
      <<"a", "b", "c", "d", "e", "f", "g", "1">>,
      <<"A", "B", "C", "D", "E", "F", "G", "1">>,
      <<"A", "b", "c", "d", "e", "f", "g", "h">> }

CurrentPasswords == { <<>>, <<"o", "l", "d">> }

MsgMismatch == "New passwords do not match"

MsgRequirements == "New password does not meet requirements"

MsgChanged == "Password changed successfully! Redirecting to dashboard..."

\* err.response.data.detail.error.message, or the fallback (lines 75-78)
ChangeErrors == {"Current password is incorrect",
                 "Failed to change password. Please try again."}

HasChar(password, class) == \E i \in 1..Len(password) : password[i] \in class

\* validatePassword without the length test
validatePasswordAnyLength(password) ==
    (IF ~HasChar(password, UpperCase) THEN <<"At least one uppercase letter">> ELSE <<>>)
    \o (IF ~HasChar(password, LowerCase) THEN <<"At least one lowercase letter">> ELSE <<>>)
    \o (IF ~HasChar(password, Digits) THEN <<"At least one number">> ELSE <<>>)

validatePassword(password) ==
    (IF Len(password) < 8 THEN <<"At least 8 characters">> ELSE <<>>)
    \o (IF ~HasChar(password, UpperCase) THEN <<"At least one uppercase letter">> ELSE <<>>)
    \o (IF ~HasChar(password, LowerCase) THEN <<"At least one lowercase letter">> ELSE <<>>)
    \o (IF ~HasChar(password, Digits) THEN <<"At least one number">> ELSE <<>>)

\* line 34: an empty new password has no errors
passwordErrors(cp) ==
    IF cp.newPassword # <<>> THEN validatePassword(cp.newPassword) ELSE <<>>

passwordsMatch(cp) == cp.newPassword = cp.confirmPassword

isFormValid(cp) ==
    /\ cp.currentPassword # <<>>
    /\ cp.newPassword # <<>>
    /\ cp.confirmPassword # <<>>
    /\ passwordErrors(cp) = <<>>
    /\ passwordsMatch(cp)

\* The submit button is disabled (line 210): the form cannot be submitted.
submitDisabled(cp) == cp.loading \/ ~isFormValid(cp)

setCurrentPassword(value) ==
    /\ changePassword.currentPassword # value
    /\ changePassword' = [changePassword EXCEPT !.currentPassword = value]
    /\ UNCHANGED besidesChangePassword

setNewPassword(value) ==
    /\ changePassword.newPassword # value
    /\ changePassword' = [changePassword EXCEPT !.newPassword = value]
    /\ UNCHANGED besidesChangePassword

setConfirmPassword(value) ==
    /\ changePassword.confirmPassword # value
    /\ changePassword' = [changePassword EXCEPT !.confirmPassword = value]
    /\ UNCHANGED besidesChangePassword

\* handleSubmit up to its return or its await (lines 43-61)
handleSubmit ==
    /\ ~submitDisabled(changePassword)
    /\ LET cp == changePassword
           seen == [newPassword |-> cp.newPassword, confirmPassword |-> cp.confirmPassword]
       IN  changePassword' =
               IF ~passwordsMatch(cp)
               THEN [cp EXCEPT !.error = MsgMismatch, !.success = "",
                               !.submitted = seen @@ [called |-> FALSE,
                                                      error |-> MsgMismatch]]
               ELSE IF Len(passwordErrors(cp)) > 0
               THEN [cp EXCEPT !.error = MsgRequirements, !.success = "",
                               !.submitted = seen @@ [called |-> FALSE,
                                                      error |-> MsgRequirements]]
               ELSE [cp EXCEPT !.error = "", !.success = "", !.loading = TRUE,
                               !.pc = "awaiting",
                               !.calls = @ \cup {<<cp.currentPassword, cp.newPassword>>},
                               !.submitted = seen @@ [called |-> TRUE, error |-> ""]]
    /\ UNCHANGED besidesChangePassword

\* authApi.changePassword resolves (lines 62-73, 81-83)
changePasswordResolved ==
    /\ changePassword.pc = "awaiting"
    /\ changePassword' = [changePassword EXCEPT
                             !.success = MsgChanged,
                             !.currentPassword = <<>>,
                             !.newPassword = <<>>,
                             !.confirmPassword = <<>>,
                             !.loading = FALSE,
                             !.pc = "idle"]
    /\ UNCHANGED besidesChangePassword

\* authApi.changePassword rejects (lines 73-83)
changePasswordRejected ==
    /\ changePassword.pc = "awaiting"
    /\ \E errorMessage \in ChangeErrors :
          changePassword' = [changePassword EXCEPT !.error = errorMessage,
                                                   !.loading = FALSE, !.pc = "idle"]
    /\ UNCHANGED besidesChangePassword

InitChangePassword ==
    /\ Mount
    /\ CorrelatorParked /\ ChangePasswordParked /\ AuthParked /\ ImportParked
    /\ BillsParked

NextChangePassword ==
    \/ \E value \in CurrentPasswords : setCurrentPassword(value)
    \/ \E value \in NewPasswords : setNewPassword(value)
    \/ \E value \in NewPasswords : setConfirmPassword(value)
    \/ handleSubmit
    \/ changePasswordResolved
    \/ changePasswordRejected

SpecChangePassword == InitChangePassword /\ [][NextChangePassword]_vars

----------------------------------------------------------------------------
(* The AuthProvider (frontend/src/contexts/AuthContext.tsx).               *)

MaxAuthCalls == 3

Users == {"alice"}

StoredTokens == [access_token |-> "access", refresh_token |-> "refresh"]

removeItem(storage, key) == [storage EXCEPT ![key] = "null"]

setItem(storage, key, value) == [storage EXCEPT ![key] = value]

\* lines 37-38 with the second removeItem left out
removeAccessTokenOnly(storage) == removeItem(storage, "access_token")

\* lines 37-38, 73-74
removeTokens(storage) == removeItem(removeItem(storage, "access_token"), "refresh_token")

isAuthenticated(a) == a.user # "null"

\* The provider has mounted: the effect of lines 45-53 has read the token a
\* previous visit may have left, and has called loadUser if there is one.
InitAuth ==
    /\ Mount
    /\ CorrelatorParked /\ ChangePasswordParked /\ ImportParked /\ BillsParked
    /\ localStorage \in {NoTokens, StoredTokens}
    /\ auth = IF localStorage.access_token # "null"
              THEN [AuthIdle EXCEPT !.loading = TRUE, !.loads = 1]
              ELSE AuthIdle

\* login is called: authApi.login is awaited (line 56).
login ==
    /\ auth.calls < MaxAuthCalls
    /\ auth' = [auth EXCEPT !.logins = @ + 1, !.calls = @ + 1]
    /\ UNCHANGED <<localStorage, besidesAuth>>

\* authApi.login resolves: the tokens are stored and loadUser is called
\* (lines 57-59, 33).
loginResolved ==
    /\ auth.logins > 0
    /\ localStorage' = setItem(setItem(localStorage, "access_token", "access"),
                               "refresh_token", "refresh")
    /\ auth' = [auth EXCEPT !.logins = @ - 1, !.loads = @ + 1]
    /\ UNCHANGED besidesAuth

\* authApi.login rejects: login rejects (line 56).
loginRejected ==
    /\ auth.logins > 0
    /\ auth' = [auth EXCEPT !.logins = @ - 1]
    /\ UNCHANGED <<localStorage, besidesAuth>>

\* authApi.getCurrentUser resolves (lines 33-34, 40-42).
getCurrentUserResolved ==
    /\ auth.loads > 0
    /\ \E userData \in Users :
          auth' = [auth EXCEPT !.user = userData, !.loading = FALSE, !.loads = @ - 1]
    /\ UNCHANGED <<localStorage, besidesAuth>>

\* authApi.getCurrentUser rejects (lines 35-42).
getCurrentUserRejected ==
    /\ auth.loads > 0
    /\ localStorage' = removeTokens(localStorage)
    /\ auth' = [auth EXCEPT !.user = "null", !.loading = FALSE, !.loads = @ - 1]
    /\ UNCHANGED besidesAuth

\* logout is called: authApi.logout is awaited (lines 67-69).
logout ==
    /\ auth.calls < MaxAuthCalls
    /\ auth' = [auth EXCEPT !.logouts = @ + 1, !.calls = @ + 1]
    /\ UNCHANGED <<localStorage, besidesAuth>>

\* authApi.logout has resolved or rejected: the catch block swallows the
\* error, the finally block runs, and the promise of logout is fulfilled
\* (lines 70-76).
logoutSettles(api) ==
    /\ auth.logouts > 0
    /\ localStorage' = removeTokens(localStorage)
    /\ auth' = [auth EXCEPT !.user = "null", !.logouts = @ - 1,
                            !.settled = [api |-> api, promise |-> "fulfilled",
                                         userBefore |-> auth.user]]
    /\ UNCHANGED besidesAuth

logoutResolved == logoutSettles("resolved")

logoutRejected == logoutSettles("rejected")

NextAuth ==
    \/ login
    \/ loginResolved
    \/ loginRejected
    \/ getCurrentUserResolved
    \/ getCurrentUserRejected
    \/ logout
    \/ logoutResolved
    \/ logoutRejected

SpecAuth == InitAuth /\ [][NextAuth]_vars

----------------------------------------------------------------------------
(* The Import page (part_000): the credit card form and the bank form.     *)

ImportTabs == {"credit_card", "bank"}

Files == {"statement.csv"}

\* What the user types as account ID: nothing, blanks, an id between blanks.
AccountIds == { <<>>, <<" ", " ">>, <<" ", "c", "c", " ">> }

MsgSelectFile == "Please select a CSV file"

MsgEnterAccount == "Please enter an account ID"

MsgImportFailed == "Import failed. Please try again."

RECURSIVE TrimStart(_)
TrimStart(s) == IF s # <<>> /\ Head(s) = " " THEN TrimStart(Tail(s)) ELSE s

RECURSIVE TrimEnd(_)
TrimEnd(s) ==
    IF s # <<>> /\ s[Len(s)] = " " THEN TrimEnd(SubSeq(s, 1, Len(s) - 1)) ELSE s

\* the account ID used as it was typed
untrimmed(s) == s

\* String.prototype.trim (lines 34, 41)
trim(s) == TrimEnd(TrimStart(s))

\* onChange of the file input (lines 189, 271): the chosen file, or null when
\* the dialog leaves the input empty
setFile(form, file) ==
    /\ importPage.activeTab = form
    /\ importPage[form].input # file
    /\ importPage' = [importPage EXCEPT ![form].input = file, ![form].file = file]
    /\ UNCHANGED besidesImport

\* onChange of the account ID input (lines 203, 285)
setAccountId(form, value) ==
    /\ importPage.activeTab = form
    /\ importPage[form].accountId # value
    /\ importPage' = [importPage EXCEPT ![form].accountId = value]
    /\ UNCHANGED besidesImport

\* The tab buttons (lines 127, 137): the form of the other tab is unmounted
\* (lines 150, 227) and the form shown is mounted with an empty file input.
setImportTab(tab) ==
    /\ importPage.activeTab # tab
    /\ importPage' = [importPage EXCEPT !.activeTab = tab, ![tab].input = "null"]
    /\ UNCHANGED besidesImport

\* The browser submits the form: its button is enabled (lines 216, 298) and
\* its two required inputs hold a value (lines 191, 206, 273, 288).
canSubmit(form) ==
    /\ importPage.activeTab = form
    /\ ~importPage[form].loading
    /\ importPage[form].input # "null"
    /\ importPage[form].accountId # <<>>

\* handleCreditCardSubmit / handleBankSubmit up to the return or the await
\* (lines 24-40, 59-75)
handleImportSubmit(form) ==
    /\ canSubmit(form)
    /\ LET f == importPage[form]
           seen == [file |-> f.file, accountId |-> f.accountId]
       IN  importPage' =
               IF f.file = "null"
               THEN [importPage EXCEPT
                        ![form].error = MsgSelectFile, ![form].success = "null",
                        ![form].submitted = seen @@ [called |-> FALSE,
                                                     error |-> MsgSelectFile,
                                                     loading |-> f.loading]]
               ELSE IF trim(f.accountId) = <<>>
               THEN [importPage EXCEPT
                        ![form].error = MsgEnterAccount, ![form].success = "null",
                        ![form].submitted = seen @@ [called |-> FALSE,
                                                     error |-> MsgEnterAccount,
                                                     loading |-> f.loading]]
               ELSE [importPage EXCEPT
                        ![form].error = "", ![form].success = "null",
                        ![form].loading = TRUE, ![form].pc = "awaiting",
                        ![form].submitted = seen @@ [called |-> TRUE, error |-> "",
                                                     loading |-> TRUE]]
    /\ UNCHANGED besidesImport

handleCreditCardSubmit == handleImportSubmit("credit_card")

handleBankSubmit == handleImportSubmit("bank")

\* importsApi.importCreditCard / importBank resolves (lines 42-46, 54-56,
\* 77-81, 89-91): the states are reset, the file input keeps its file.
importResolved(form) ==
    /\ importPage[form].pc = "awaiting"
    /\ importPage' = [importPage EXCEPT
                         ![form].success = "imported", ![form].file = "null",
                         ![form].accountId = <<>>, ![form].loading = FALSE,
                         ![form].pc = "idle"]
    /\ UNCHANGED besidesImport

\* importsApi.importCreditCard / importBank rejects (lines 47-56, 82-91)
importRejected(form) ==
    /\ importPage[form].pc = "awaiting"
    /\ importPage' = [importPage EXCEPT
                         ![form].error = MsgImportFailed, ![form].loading = FALSE,
                         ![form].pc = "idle"]
    /\ UNCHANGED besidesImport

InitImport ==
    /\ Mount
    /\ CorrelatorParked /\ ChangePasswordParked /\ AuthParked /\ ImportParked
    /\ BillsParked

NextImport ==
    \/ \E form \in ImportTabs, file \in Files \cup {"null"} : setFile(form, file)
    \/ \E form \in ImportTabs, value \in AccountIds : setAccountId(form, value)
    \/ \E tab \in ImportTabs : setImportTab(tab)
    \/ handleCreditCardSubmit
    \/ handleBankSubmit
    \/ \E form \in ImportTabs : importResolved(form)
    \/ \E form \in ImportTabs : importRejected(form)

SpecImport == InitImport /\ [][NextImport]_vars

----------------------------------------------------------------------------
(* The bills page (frontend/src/pages/RecurringPayments.tsx): loadData.    *)

MaxLoadData == 2

\* The state each request of Promise.all fills, in the order of lines 90-93.
DataStates == <<"summary", "payments", "upcomingRecords", "overdueRecords">>

MsgLoadData == "Failed to load data"

\* loadData up to its await (lines 85-94)
startLoadData(b) ==
    [b EXCEPT !.loading = TRUE, !.error = "", !.started = @ + 1,
              !.requests = Append(@, [k \in 1..4 |-> "pending"])]

\* A response of call n is stored in its state as soon as it arrives.
setAsItArrives(b, n, k) ==
    [b EXCEPT !.requests[n][k] = "resolved", ![DataStates[k]] = n]

\* Request k of call n has resolved and Promise.all waits for the others
\* (line 89).
arrived(b, n, k) == [b EXCEPT !.requests[n][k] = "resolved"]

\* The four requests of call n have resolved (lines 96-99, 103-105).
allResolved(b, n) ==
    [b EXCEPT !.summary = n, !.payments = n, !.upcomingRecords = n,
              !.overdueRecords = n, !.loading = FALSE, !.requests[n] = <<>>,
              !.settled = [call |-> n, outcome |-> "resolved"]]

\* A request of call n has rejected (lines 100-105); the responses of the
\* other requests are dropped.
oneRejected(b, n) ==
    [b EXCEPT !.error = MsgLoadData, !.loading = FALSE, !.requests[n] = <<>>,
              !.settled = [call |-> n, outcome |-> "rejected"]]

\* The mount effect has called loadData (lines 117-119).
InitBills ==
    /\ Mount
    /\ CorrelatorParked /\ ChangePasswordParked /\ AuthParked /\ ImportParked
    /\ bills = startLoadData(BillsIdle)

\* loadData is called again by a handler that changed a payment (lines 154,
\* 170, 183, 198, 210, 221).
loadData ==
    /\ bills.started < MaxLoadData
    /\ bills' = startLoadData(bills)
    /\ UNCHANGED besidesBills

requestResolved(n, k) ==
    /\ n \in 1..Len(bills.requests)
    /\ bills.requests[n] # <<>>
    /\ bills.requests[n][k] = "pending"
    /\ bills' = IF \A j \in 1..4 : j # k => bills.requests[n][j] = "resolved"
                THEN allResolved(arrived(bills, n, k), n)
                ELSE arrived(bills, n, k)
    /\ UNCHANGED besidesBills

requestRejected(n, k) ==
    /\ n \in 1..Len(bills.requests)
    /\ bills.requests[n] # <<>>
    /\ bills.requests[n][k] = "pending"
    /\ bills' = oneRejected(bills, n)
    /\ UNCHANGED besidesBills

NextBills ==
    \/ loadData
    \/ \E n \in 1..MaxLoadData, k \in 1..4 : requestResolved(n, k)
    \/ \E n \in 1..MaxLoadData, k \in 1..4 : requestRejected(n, k)

SpecBills == InitBills /\ [][NextBills]_vars

----------------------------------------------------------------------------
(* Properties.  The state predicates below read the last render (view);    *)
(* each is checked under the specification named beside it.                *)

Report == view.dataValidation

Zero == [spent |-> 0, checkingOut |-> 0, totalSpent |-> 0, received |-> 0,
         net |-> 0, count |-> 0]

\* A record whose amount is no finite number.
NotFinite(t) == ~IsNumber(t.amount) \/ t.amount.nan

\* C1 (SpecLoaded): in every validation report the four sign counts add up to
\* the number of records: negative + positive + zero + invalid amount = total.
C1_SignCountsPartition ==
    Report.status = "ok" =>
        Report.negativeCount + Report.positiveCount + Report.zeroCount
            + Report.invalidAmounts = Report.totalCount

\* C2 (SpecLoaded): the month-over-month change is a finite number, and it is
\* exactly 0 whenever last month's spending is 0, whatever this month's is.
C2_MomChangeNeutral ==
    /\ IsFinite(view.metrics.momChange)
    /\ view.metrics.lastMonth.spent = 0 => view.metrics.momChange = JsZero

C2_Witness ==
    /\ view.metrics.lastMonth.spent = 0
    /\ view.metrics.thisMonth.spent > 0
    /\ view.content = "overview"

\* C3 (SpecLoaded): in every bucket, received is the sum of the positive
\* amounts on the income account chk_main, and appending a positive record of
\* any other account to the bucket leaves received as it is.
IsIncome(t) == IsNumber(t.amount) /\ NumGT0(t.amount) /\ t.account_id = "chk_main"

IsOtherInflow(t) == IsNumber(t.amount) /\ NumGT0(t.amount) /\ t.account_id # "chk_main"

C3_ReceivedIncomeAccountOnly ==
    \A b \in Buckets :
        /\ view.metrics[b].received =
               SumInts(Amounts(SelectSeq(view.metrics.ranges[b].out, IsIncome)))
        /\ \A x \in feed :
               IsOtherInflow(x) =>
                   calculateTotals(Append(view.metrics.ranges[b].out, x)).received
                       = view.metrics[b].received

C3_Witness ==
    \E b \in Buckets :
        /\ view.metrics[b].received > 0
        /\ \E i \in 1..Len(view.metrics.ranges[b].out) :
               IsOtherInflow(view.metrics.ranges[b].out[i])

\* C4 (SpecLoaded): no total the aggregator returns for a bucket is the two
\* outflow totals added together: when the bucket has outflows on the
\* checking account and on other accounts, totalSpent is not their sum and
\* net is not received minus their sum.
C4_OutflowsNeverCombined ==
    \A b \in Buckets :
        (view.metrics[b].spent > 0 /\ view.metrics[b].checkingOut > 0) =>
            /\ view.metrics[b].totalSpent # view.metrics[b].spent + view.metrics[b].checkingOut
            /\ view.metrics[b].net #
                   view.metrics[b].received
                       - (view.metrics[b].spent + view.metrics[b].checkingOut)

\* C5 (SpecLoaded): with no transactions, every total of every bucket, both
\* daily averages, the annual projection and the month-over-month change
\* are 0, the validation report is null, and the render does not throw.
C5_EmptySetAllZero ==
    view.transactions = <<>> =>
        /\ \A b \in Buckets : view.metrics[b] = Zero
        /\ view.metrics.ytdDailyAvg = JsZero
        /\ view.metrics.monthDailyAvg = JsZero
        /\ view.metrics.projectedAnnual = JsZero
        /\ view.metrics.momChange = JsZero
        /\ Report.status = "null"
        /\ view.content # "threw"

C5_Witness ==
    /\ view.transactions = <<>>
    /\ view.metrics.daysInYear = 1
    /\ activeTab = "validation"

\* C6 (Spec): no render throws, whatever date strings and amounts the loaded
\* records carry.
C6_RenderNeverThrows == view.content # "threw"

\* C7 (SpecLoaded): in every validation report a record whose amount is no
\* finite number is counted in invalidAmounts and in no sign count, and the
\* raw total is a finite sum.
C7_InvalidAmountQuarantined ==
    Report.status = "ok" =>
        /\ Report.invalidAmounts = Len(SelectSeq(view.transactions, NotFinite))
        /\ Report.negativeCount + Report.positiveCount + Report.zeroCount
               = Len(SelectSeq(view.transactions, LAMBDA t : ~NotFinite(t)))
        /\ IsFinite(Report.rawTotals.total)

\* C8 (SpecLoaded): each bucket holds exactly the records whose written
\* calendar date lies between the local calendar dates of its start and its
\* end, both included; a record without a date is in no bucket.
OnCalendarDays(t, start, end, z) ==
    /\ t.transaction_date.kind # "text"
    /\ CalendarDay(t.transaction_date) >= LocalDay(start, z)
    /\ CalendarDay(t.transaction_date) <= LocalDay(end, z)

C8_CalendarDateInclusive ==
    \A b \in Buckets :
        view.metrics.ranges[b].out =
            SelectSeq(view.transactions,
                      LAMBDA t : OnCalendarDays(t, view.metrics.ranges[b].start,
                                                view.metrics.ranges[b].end, tz))

\* C9 (SpecLoaded): filtering a bucket again with the bounds it was made with
\* returns the same list, and a bucket lists records of the input in the
\* order of the input.
RECURSIVE IsSubSeq(_, _)
IsSubSeq(a, b) ==
    IF a = <<>> THEN TRUE
    ELSE IF b = <<>> THEN FALSE
    ELSE IF Head(a) = Head(b) THEN IsSubSeq(Tail(a), Tail(b))
    ELSE IsSubSeq(a, Tail(b))

C9_FilterIdempotentStable ==
    \A b \in Buckets :
        /\ getTransactionsInRange(view.metrics.ranges[b].out, view.metrics.ranges[b].start,
                                  view.metrics.ranges[b].end, tz)
               = view.metrics.ranges[b].out
        /\ IsSubSeq(view.metrics.ranges[b].out, view.transactions)

C9_Witness ==
    \E b \in Buckets :
        /\ Len(view.metrics.ranges[b].out) = 2
        /\ view.metrics.ranges[b].out[1] # view.metrics.ranges[b].out[2]
        /\ \E c \in Buckets : Len(view.metrics.ranges[c].out) = 1

\* C10 (Spec): after every render the two loaded lists are what they were
\* when the render began: same length, same order, same records.
C10_LoadedListsUntouched ==
    /\ allTransactions = view.loaded.all
    /\ filteredTransactions = view.loaded.filtered

C10_Witness ==
    /\ view.content = "housing"
    /\ Len(allTransactions) = 2
    /\ Len(view.housingTransactions) = 2
    /\ view.housingTransactions[1] = allTransactions[2]
    /\ view.housingTransactions[1] # view.housingTransactions[2]

\* The ids carried by more than one record of a list.
RepeatedIds(txs) ==
    {id \in {txs[i].transaction_id : i \in 1..Len(txs)} :
        Cardinality({i \in 1..Len(txs) : txs[i].transaction_id = id}) > 1}

\* C11 (SpecLoaded): every count of duplicate ids the dashboard shows is the
\* number of distinct ids carried by more than one record of the list it was
\* taken over: the count of the validation report, the count of the
\* Duplicate Analysis, and the count of the diagnostics of the month.
C11_DuplicateIdCountIsDistinctIds ==
    /\ Report.status = "ok" =>
           Report.duplicates = Cardinality(RepeatedIds(view.transactions))
    /\ (view.content = "validation" /\ Report.status = "ok") =>
           /\ view.duplicateIds = Cardinality(RepeatedIds(allTransactions))
           /\ view.month.uniqueDuplicates = Cardinality(RepeatedIds(view.month.thisMonthTxs))

\* Two records with the same calendar date, description, amount and account.
SameSignature(a, b) ==
    /\ a.transaction_date.kind # "text" /\ b.transaction_date.kind # "text"
    /\ CalendarDay(a.transaction_date) = CalendarDay(b.transaction_date)
    /\ a.description = b.description
    /\ a.amount.nan = b.amount.nan /\ a.amount.v = b.amount.v
    /\ a.account_id = b.account_id

\* groups are exactly the classes of more than one record of txs.
GroupsBySignature(groups, txs) ==
    /\ \A g \in 1..Len(groups) : \A i, j \in 1..Len(groups[g]) :
           SameSignature(groups[g][i], groups[g][j])
    /\ \A i, j \in 1..Len(txs) :
           (i # j /\ SameSignature(txs[i], txs[j])) =>
               \E g \in 1..Len(groups) :
                   \E k, l \in 1..Len(groups[g]) :
                       k # l /\ groups[g][k] = txs[i] /\ groups[g][l] = txs[j]

AnalysisGroups == [g \in 1..Len(view.duplicateGroups) |-> view.duplicateGroups[g].txns]

\* C12 (SpecLoaded): in the Duplicate Analysis and in the diagnostics of the
\* month, two records are in one potential-duplicate group exactly when
\* they have the same calendar date, description, amount and account_id; no
\* group holds records of two accounts.
C12_GroupedExactlyBySignature ==
    (view.content = "validation" /\ Report.status = "ok") =>
        /\ GroupsBySignature(AnalysisGroups, allTransactions)
        /\ GroupsBySignature(view.month.exactDuplicates, view.month.thisMonthTxs)

\* abs(amount) * (groupSize - 1) of a group, from the amount its records share.
ExcessImpact(txns) == Abs(txns[1].amount.v) * (Len(txns) - 1)

HasAmount(txns) == ~txns[1].amount.nan

\* C13 (SpecLoaded): in the Duplicate Analysis, the Extra $ of every group
\* whose amount is numeric is abs(amount) * (groupSize - 1), negative or
\* positive, and the Duplicate Spending Impact is the sum of these over the
\* groups.
C13_ExcessImpactOfEveryGroup ==
    (view.content = "validation" /\ Report.status = "ok"
        /\ \A g \in 1..Len(AnalysisGroups) : HasAmount(AnalysisGroups[g])) =>
        /\ \A g \in 1..Len(view.duplicateGroups) :
               view.duplicateGroups[g].extraAmount = Fin(ExcessImpact(AnalysisGroups[g]), 1)
        /\ view.duplicateSpending =
               SumInts([g \in 1..Len(AnalysisGroups) |-> ExcessImpact(AnalysisGroups[g])])

\* Every ordering of the records of s.
Orderings(s) ==
    {[i \in 1..Len(s) |-> s[p[i]]] :
        p \in {q \in [1..Len(s) -> 1..Len(s)] : \A i, j \in 1..Len(s) : q[i] = q[j] => i = j}}

\* The groups the Duplicate Analysis lists for the loaded list all.
GroupsListedFor(all) ==
    Take(DuplicateGroupsSortStep(DuplicateGroupsStep(EmptyHeap(all, <<>>)))
             ["potentialDuplicateGroups"], 10)

\* C14 (SpecLoaded): the groups the Duplicate Analysis lists are the same for
\* every ordering of the loaded records: same groups, in the same order,
\* with the same members in the same order.
C14_DuplicateGroupsOrderIndependent ==
    (view.content = "validation" /\ Report.status = "ok") =>
        \A shuffled \in Orderings(allTransactions) :
            GroupsListedFor(shuffled) = AnalysisGroups

\* The sum of the amounts of the whole category breakdown.
GrandTotal == SumInts(CategoryData(view.categoryEntries))

\* C15 (SpecLoaded): every category percentage shown (the labels of the two
\* category pies and the rows of the Top Categories list) is taken over the
\* sum of all the amounts of the category breakdown, which is the total of
\* the negative amounts of the list.
C15_PercentageOverGrandTotal ==
    /\ GrandTotal = totalSpent(view.transactions)
    /\ \A i \in 1..Len(view.charts.overviewPie) :
           view.charts.overviewPie[i].total = GrandTotal
    /\ \A i \in 1..Len(view.charts.categoriesPie) :
           view.charts.categoriesPie[i].total = GrandTotal
    /\ \A i \in 1..Len(view.charts.topCategories) :
           view.charts.topCategories[i].total = GrandTotal

\* The place in the list of the first outflow of a category.
FirstSeen(txs, category) ==
    CHOOSE i \in 1..Len(txs) :
        /\ IsOutflow(txs[i]) /\ CategoryOf(txs[i]) = category
        /\ \A j \in 1..(i - 1) : ~(IsOutflow(txs[j]) /\ CategoryOf(txs[j]) = category)

\* C16 (SpecLoaded): the category breakdown lists its groups by descending
\* total, and two groups of equal total in the order in which their first
\* records occur in the list.
C16_DescendingTiesFirstSeen ==
    \A i, j \in 1..Len(view.categoryEntries) :
        i < j =>
            \/ view.categoryEntries[i].total > view.categoryEntries[j].total
            \/ /\ view.categoryEntries[i].total = view.categoryEntries[j].total
               /\ FirstSeen(view.transactions, view.categoryEntries[i].key)
                      < FirstSeen(view.transactions, view.categoryEntries[j].key)

\* C17 (SpecLoaded): every row of a breakdown has a record: each category of
\* the category breakdown and each housing category listed has an outflow
\* of the list in it, and each month of the monthly breakdown has an outflow
\* of the list dated in it.
C17_NoEmptyGroupListed ==
    /\ \A i \in 1..Len(view.categoryEntries) :
           \E k \in 1..Len(view.transactions) :
               /\ IsOutflow(view.transactions[k])
               /\ CategoryOf(view.transactions[k]) = view.categoryEntries[i].key
    /\ \A i \in 1..Len(view.totals) :
           \E k \in 1..Len(allTransactions) :
               /\ IsHousing(allTransactions[k])
               /\ HousingCategoryOf(allTransactions[k]) = view.totals[i].category
    /\ \A i \in 1..Len(view.monthlyData) :
           \E k \in 1..Len(view.transactions) :
               InMonth(view.transactions[k], view.monthlyData[i].month, tz)

\* The days from the local calendar day of start through that of now.
InclusiveDays(start) == LocalDay(now, tz) - LocalDay(start, tz) + 1

\* C18 (SpecLoaded): the divisor of each daily average is the number of
\* calendar days from the start of the period through today, both counted,
\* and is at least 1; the two daily averages are the period's spending
\* divided by it, and they and the annual projection (the year's daily
\* average times 365) are finite.
C18_DailyAverageDivisor ==
    /\ view.metrics.daysInYear = InclusiveDays(view.metrics.ranges.ytd.start)
    /\ view.metrics.daysInMonth = InclusiveDays(view.metrics.ranges.thisMonth.start)
    /\ view.metrics.daysInYear >= 1
    /\ view.metrics.daysInMonth >= 1
    /\ view.metrics.ytdDailyAvg = Fin(view.metrics.ytd.spent, view.metrics.daysInYear)
    /\ view.metrics.monthDailyAvg = Fin(view.metrics.thisMonth.spent, view.metrics.daysInMonth)
    /\ view.metrics.projectedAnnual = Fin(view.metrics.ytd.spent * 365, view.metrics.daysInYear)
    /\ IsFinite(view.metrics.ytdDailyAvg)
    /\ IsFinite(view.metrics.monthDailyAvg)
    /\ IsFinite(view.metrics.projectedAnnual)

C18_Witness ==
    /\ view.metrics.daysInMonth = 1
    /\ view.metrics.thisMonth.spent > 0
    /\ view.metrics.monthDailyAvg = Fin(view.metrics.thisMonth.spent, 1)
    /\ activeTab = "monthly"

\* The number a numeric string denotes, in place of the string.
AsNumber(a) == IF a.type = "string" /\ ~a.nan THEN Num(a.v) ELSE a

Canonical(txs) == [i \in 1..Len(txs) |-> [txs[i] EXCEPT !.amount = AsNumber(@)]]

\* C19 (SpecLoaded): a record whose amount is a numeric string counts as the
\* record with that number: the totals of every bucket are those of the
\* bucket with each numeric string replaced by its number, and the
\* validation report counts as invalid amounts only the amounts that are
\* no number at all.
C19_NumericStringIsItsNumber ==
    /\ \A b \in Buckets :
           view.metrics[b] = calculateTotals(Canonical(view.metrics.ranges[b].out))
    /\ Report.status = "ok" =>
           Report.invalidAmounts = Len(SelectSeq(view.transactions, LAMBDA t : t.amount.nan))

\* C20 (SpecFilters): no request for transactions is made with a start date after
\* its end date, and while the filters of the transactions tab hold such a
\* range the tab shows an error.
C20_InvertedRangeRejected ==
    /\ \A i \in 1..Len(params) : params[i].start_date <= params[i].end_date
    /\ (view.content = "transactions" /\ filters.start_date > filters.end_date) => error # ""

\* A record of the list dated outside the current month.
OutOfPeriod(x) ==
    DateOutside(ResolveDate(x.transaction_date, tz), startOfMonth(now, tz), endOfMonth(now, tz))

\* C21 (SpecLoaded): the Date Range Issue count of the diagnostics of the
\* month is the number of records of the list whose date lies outside the
\* current month.
C21_OutOfPeriodCounted ==
    (view.content = "validation" /\ Report.status = "ok") =>
        view.month.datesOutsideMonth = Len(SelectSeq(view.transactions, OutOfPeriod))

\* C22 (SpecCorrelator): in the list correlate returns, no inflow record is
\* in two pairs.
C22_InflowPairedOnce ==
    \A p, q \in 1..Len(correlator.pairs) :
        p # q => correlator.pairs[p].inflow # correlator.pairs[q].inflow

\* Two outflows were within reach of the one inflow that was paired.
C22_Witness ==
    /\ correlator.pc = "returned"
    /\ Len(correlator.pairs) = 1
    /\ Len(correlator.outflows) = 2
    /\ \A i \in 1..2 :
          candidates(correlator.outflows[i], correlator.inflows, {},
                     correlator.toleranceDays)
              = {correlator.pairs[1].inflow.id}

\* The password has at least 8 characters, an uppercase letter, a lowercase
\* letter and a digit.
MeetsRequirements(password) ==
    /\ Len(password) >= 8
    /\ \E i \in 1..Len(password) : password[i] \in UpperCase
    /\ \E i \in 1..Len(password) : password[i] \in LowerCase
    /\ \E i \in 1..Len(password) : password[i] \in Digits

C24_AuthenticatedHasToken ==
    isAuthenticated(auth) => localStorage.access_token # "null"

\* C25 (SpecAuth): a step in which a call of logout settles leaves neither
\* token in localStorage and no user, and the promise of logout is fulfilled,
\* whether authApi.logout resolved or rejected.
C25_LogoutAlwaysClears ==
    [][auth'.logouts < auth.logouts =>
           /\ localStorage'.access_token = "null"
           /\ localStorage'.refresh_token = "null"
           /\ auth'.user = "null"
           /\ auth'.settled.promise = "fulfilled"]_vars

C25_Witness ==
    /\ auth.settled # <<>>
    /\ auth.settled.api = "rejected"
    /\ auth.settled.userBefore # "null"
    /\ auth.user = "null"
    /\ localStorage = NoTokens

\* C26 (SpecFilters): when no request for filtered transactions is
\* outstanding and none has failed since the last one was issued,
\* filteredTransactions holds the response to the request made with the
\* current filter values.
C26_LatestFilterWins ==
    (pendingFiltered = 0 /\ error = "" /\ answered # <<>>) =>
        answered = ParamsOf(filters)

\* C27 (Spec): whenever no call of loadAllTransactions is running, loading is
\* false and loadingProgress is empty: each call ends that way, whether the
\* paginated request resolved, the fallback resolved, both were rejected, or
\* the rejection was a 401.
C27_LoadAlwaysEndsIdle ==
    loadPc = "idle" => (~loading /\ loadingProgress = "")

C27_Witness ==
    /\ loadPc = "idle"
    /\ error = MsgUnauthorized
    /\ ~loading
    /\ view.content = "retry"

\* The account ID is empty or made of blanks.
IsBlankId(s) == \A i \in 1..Len(s) : s[i] = " "

\* C28 (SpecImport): a submit of either import form that finds no file
\* selected or a blank account ID sets the error of that form, calls no
\* import API and leaves the loading flag of that form false.
C28_InvalidImportRejected ==
    \A form \in ImportTabs :
        LET s == importPage[form].submitted
        IN  (s # <<>> /\ (s.file = "null" \/ IsBlankId(s.accountId))) =>
                (s.error # "" /\ ~s.called /\ ~s.loading)

\* The credit card form was submitted with a blank account ID and the bank
\* form with its file input filled and no file in its state.
C28_Witness ==
    /\ importPage.credit_card.submitted # <<>>
    /\ importPage.credit_card.submitted.file # "null"
    /\ importPage.credit_card.submitted.accountId = <<" ", " ">>
    /\ importPage.credit_card.error = MsgEnterAccount
    /\ importPage.bank.submitted # <<>>
    /\ importPage.bank.submitted.file = "null"
    /\ importPage.bank.error = MsgSelectFile

\* The four pieces of data loadData fetches.
BillsData(b) == <<b.summary, b.payments, b.upcomingRecords, b.overdueRecords>>

\* C29 (SpecBills): the four pieces of data change only in a step in which a
\* call of loadData ends; if the call ends because a request failed, the four
\* are left as they were and an error message is set, else the four hold the
\* responses of that call; in both cases loading is false after the step.
C29_AllOrNothing ==
    [][/\ BillsData(bills') # BillsData(bills) => bills'.settled # bills.settled
       /\ bills'.settled # bills.settled =>
              /\ ~bills'.loading
              /\ IF bills'.settled.outcome = "rejected"
                 THEN BillsData(bills') = BillsData(bills) /\ bills'.error # ""
                 ELSE \A k \in 1..4 : BillsData(bills')[k] = bills'.settled.call]_vars

\* The second call failed after the first had filled the four states.
C29_Witness ==
    /\ bills.settled # <<>>
    /\ bills.settled = [call |-> 2, outcome |-> "rejected"]
    /\ BillsData(bills) = <<1, 1, 1, 1>>
    /\ bills.error # ""
    /\ ~bills.loading

\* A record with a negative number as amount.
IsNegative(t) == IsNumber(t.amount) /\ NumLT0(t.amount)

====
